---------------------------- MODULE Spec2Model ----------------------------
(***************************************************************************)
(* A model of the Beppe text editor: the Line / TextFragment text model,   *)
(* the AnnotatedLine annotation adjustment, the Buffer (document), the     *)
(* View (cursor and scroll engine) and the Editor's mode machine.          *)
(*                                                                         *)
(* Text is a sequence of characters.  Three representative characters      *)
(* carry the three units the code reconciles (bytes, graphemes, columns):  *)
(*   "a"  an ASCII letter            1 byte,  1 column, its own grapheme   *)
(*   "W"  a CJK wide character       3 bytes, 2 columns, its own grapheme  *)
(*   "m"  a combining mark (U+0301)  2 bytes, 0 columns, extends the       *)
(*        grapheme before it (a grapheme of its own at the line start)     *)
(* and "\r" (a control character, 1 byte) is the character that str::lines *)
(* strips when a file is read back.                                        *)
(*                                                                         *)
(* Specifications:                                                         *)
(*   Spec        the View and its Buffer driven through View's methods     *)
(*   SpecEditor  the Editor's event handlers with the file system          *)
(*   SpecLine    the operations of one Line                                *)
(*   SpecAnn     the operations of one AnnotatedLine                       *)
(***************************************************************************)
EXTENDS Integers, Sequences, FiniteSets, TLC

VARIABLES
    lines,          \* Buffer.lines: sequence of Line
    dirty,          \* Buffer.dirty
    file_info,      \* Buffer.file_info: [path, file_type]
    text_location,  \* View.text_location: [line_index, grapheme_index]
    scroll_offset,  \* View.scroll_offset: [x, y]
    size,           \* View.size: [width, height]
    needs_redraw,   \* View.needs_redraw
    search_term,    \* View.search_term
    mode,           \* Editor.mode
    command_bar,    \* Editor.command_bar: [command, prompt, line, cursor_location]
    message_bar,    \* Editor.message_bar: the message shown
    pressed_quit,   \* Editor.pressed_quit
    should_quit,    \* Editor.should_quit
    disk,           \* the file system: path -> file contents, or Absent
    ln,             \* SpecLine: the Line operated on
    al,             \* SpecAnn: the AnnotatedLine operated on
    hl,             \* SpecAnn: the Highlighter operated on
    last,           \* the last operation executed, with its arguments and result
    panic           \* "none", or the panic that stopped the program

vars == <<lines, dirty, file_info, text_location, scroll_offset, size,
          needs_redraw, search_term, mode, command_bar, message_bar,
          pressed_quit, should_quit, disk, ln, al, hl, last, panic>>

bufferVars == <<lines, dirty, file_info>>
viewVars   == <<text_location, scroll_offset, size, needs_redraw, search_term>>
editorVars == <<mode, command_bar, message_bar, pressed_quit>>

-----------------------------------------------------------------------------
(* Bounds *)

\* SpecLine: characters in the Line operated on
LnMaxLen == 3

\* Spec: lines and characters of the document
MaxLines == 2
MaxChars == 2

\* SpecEditor: characters of a file on disk at the start
MaxFileLen == 3

\* SpecAnn: bytes of the annotated line, annotations pushed, bytes of a replacement
AnnMaxLen == 3
AnnMaxAnn == 2
AnnMaxRepl == 3

-----------------------------------------------------------------------------
(* Characters, UTF-8 lengths, widths, grapheme clusters *)

Chars == {"a", "W", "m"}

CR == "\r"

\* the glyphs Line::get writes: the truncation glyph and the replacements of
\* TextFragment::from for a control character and for another zero-width text
Ellipsis  == "ellipsis"
CtrlBox   == "ctrl-box"
MiddleDot == "middle-dot"

Min(a, b) == IF a < b THEN a ELSE b
Max(a, b) == IF a > b THEN a ELSE b

\* usize::saturating_sub
SatSub(a, b) == IF a > b THEN a - b ELSE 0

\* all sequences over S of length at most n
RECURSIVE SeqsUpTo(_, _)
SeqsUpTo(S, n) ==
    IF n = 0 THEN {<<>>}
    ELSE LET shorter == SeqsUpTo(S, n - 1)
         IN  shorter \cup {Append(s, c) : s \in {t \in shorter : Len(t) = n - 1}, c \in S}

\* char::len_utf8
CharBytes(c) ==
    CASE c \in {"W", Ellipsis, CtrlBox} -> 3
      [] c \in {"m", MiddleDot} -> 2
      [] OTHER -> 1

\* UnicodeWidthChar::width (0 for a combining mark and a control character)
CharWidth(c) == CASE c = "W" -> 2 [] c = "m" -> 0 [] c = CR -> 0 [] OTHER -> 1

\* Grapheme_Extend: the character continues the cluster before it
IsExtend(c) == c = "m"

\* char::is_control
IsControl(c) == c = CR

\* str::len: the length in bytes
RECURSIVE ByteLen(_)
ByteLen(s) == IF s = <<>> THEN 0 ELSE CharBytes(Head(s)) + ByteLen(Tail(s))

\* UnicodeWidthStr::width
RECURSIVE StrWidth(_)
StrWidth(s) == IF s = <<>> THEN 0 ELSE CharWidth(Head(s)) + StrWidth(Tail(s))

RECURSIVE Concat(_)
Concat(ss) == IF ss = <<>> THEN <<>> ELSE Head(ss) \o Concat(Tail(ss))

\* UnicodeSegmentation::graphemes(true): the extended grapheme clusters of s.
\* A mark extends the cluster before it (GB9) unless that cluster is a control
\* character (GB4) or there is none (GB1).
Graphemes(s) ==
    LET G[k \in 0..Len(s)] ==
            IF k = 0 THEN <<>>
            ELSE LET prev == G[k - 1]
                     c    == s[k]
                 IN  IF IsExtend(c) /\ prev # <<>> /\ ~IsControl(prev[Len(prev)][1])
                     THEN [prev EXCEPT ![Len(prev)] = Append(@, c)]
                     ELSE Append(prev, <<c>>)
    IN  G[Len(s)]

\* the character position of byte index b, a char boundary of s
CharIndex(s, b) == CHOOSE k \in 0..Len(s) : ByteLen(SubSeq(s, 1, k)) = b

IsCharBoundary(s, b) == \E k \in 0..Len(s) : ByteLen(SubSeq(s, 1, k)) = b

-----------------------------------------------------------------------------
(* TextFragment and Line (src/editor/line.rs) *)

\* TextFragment::from
TextFragmentFrom(grapheme, start_index) ==
    LET w == StrWidth(grapheme)
    IN  [grapheme    |-> grapheme,
         width       |-> CASE w = 0 -> "Zero" [] w = 1 -> "Half" [] OTHER -> "Full",
         replacement |-> CASE w = 0 /\ IsControl(grapheme[1]) -> CtrlBox
                           [] w = 0 -> MiddleDot
                           [] OTHER -> "none",
         start_index |-> start_index]

\* Line::string_to_fragments: grapheme_indices(true) mapped to TextFragment::from
StringToFragments(string) ==
    LET gs == Graphemes(string)
    IN  [k \in 1..Len(gs) |->
            TextFragmentFrom(gs[k], ByteLen(Concat(SubSeq(gs, 1, k - 1))))]

\* Line::from
LineFrom(line_str) == [line |-> StringToFragments(line_str), string |-> line_str]

\* Line::default
LineDefault == [line |-> <<>>, string |-> <<>>]

\* mutant of RebuildFragments: the fragment list is left as it was
RebuildFragmentsStale(l) == l

\* Line::rebuild_fragments
RebuildFragments(l) == [l EXCEPT !.line = StringToFragments(l.string)]

\* Line::grapheme_count
GraphemeCount(l) == Len(l.line)

\* From<GraphemeWidth> for usize
WidthColumns(w) == IF w = "Full" THEN 2 ELSE 1

\* Line::width_until
RECURSIVE WidthUntil(_, _)
WidthUntil(l, index) ==
    LET n == Min(index, Len(l.line))
    IN  IF n = 0 THEN 0
        ELSE WidthUntil(l, n - 1) + WidthColumns(l.line[n].width)

\* String::insert at a byte index
StringInsert(s, b, c) ==
    LET k == CharIndex(s, b)
    IN  SubSeq(s, 1, k) \o <<c>> \o SubSeq(s, k + 1, Len(s))

\* String::drain(start..end)
StringDrain(s, start, end) ==
    SubSeq(s, 1, CharIndex(s, start)) \o SubSeq(s, CharIndex(s, end) + 1, Len(s))

\* Line::insert_char_at (index is 0-based, as in the code)
InsertCharAt(l, index, tf) ==
    RebuildFragments(
        [l EXCEPT !.string = IF index < Len(l.line)
                             THEN StringInsert(l.string, l.line[index + 1].start_index, tf)
                             ELSE Append(l.string, tf)])

\* mutant of RemoveAt: the fragment before the addressed one is removed
RemoveAtOffByOne(l, index) ==
    IF 0 < index /\ index <= Len(l.line)
    THEN LET start == l.line[index].start_index
             end   == start + ByteLen(l.line[index].grapheme)
         IN  RebuildFragments([l EXCEPT !.string = StringDrain(l.string, start, end)])
    ELSE l

\* Line::remove_at
RemoveAt(l, index) ==
    IF index < Len(l.line)
    THEN LET start == l.line[index + 1].start_index
             end   == start + ByteLen(l.line[index + 1].grapheme)
         IN  RebuildFragments([l EXCEPT !.string = StringDrain(l.string, start, end)])
    ELSE l

\* Line::split_off: <<self afterwards, the Line returned>>
SplitOff(l, at) ==
    IF at < Len(l.line)
    THEN LET k == CharIndex(l.string, l.line[at + 1].start_index)
         IN  << RebuildFragments([l EXCEPT !.string = SubSeq(l.string, 1, k)]),
                LineFrom(SubSeq(l.string, k + 1, Len(l.string))) >>
    ELSE << l, LineDefault >>

\* Line::append
LineAppend(l, other) == RebuildFragments([l EXCEPT !.string = l.string \o other.string])

\* Line::pop
LinePop(l) == RemoveAt(l, SatSub(Len(l.line), 1))

\* Line::push_chr
PushChr(l, ch) == RebuildFragments([l EXCEPT !.string = Append(l.string, ch)])

\* Line::clear
LineClear(l) == RebuildFragments([l EXCEPT !.string = <<>>])

-----------------------------------------------------------------------------
(* Values the variables hold where a specification does not use them *)

NoPath == "<none>"

\* Location::default, Position::default, TerminalSize::default
LocationDefault == [line_index |-> 0, grapheme_index |-> 0]
PositionDefault == [x |-> 0, y |-> 0]
SizeDefault     == [width |-> 0, height |-> 0]

\* FileInfo::default
FileInfoDefault == [path |-> NoPath, file_type |-> "PlainText"]

\* CommandBar::default
CommandBarDefault ==
    [command |-> "None", prompt |-> "", line |-> LineDefault, cursor_location |-> 0]

\* AnnotatedLine::default
AnnotatedLineDefault == [line |-> <<>>, annotations |-> <<>>]

\* Option::None, Option::Some, and a call that panicked instead of returning
NoneFound == [kind |-> "None"]
Found(x)  == [kind |-> "Some", value |-> x]
Panicked  == [kind |-> "Panic"]

\* Highlighter::default
HighlighterDefault ==
    [file_type |-> "PlainText", query |-> NoneFound, selected_match |-> NoneFound,
     highlighting |-> <<>>]

NoOp == [op |-> "none"]

BufferIdle ==
    /\ lines = <<>>
    /\ dirty = FALSE
    /\ file_info = FileInfoDefault

ViewIdle ==
    /\ text_location = LocationDefault
    /\ scroll_offset = PositionDefault
    /\ size = SizeDefault
    /\ needs_redraw = FALSE
    /\ search_term = <<>>

EditorIdle ==
    /\ mode = "Normal"
    /\ command_bar = CommandBarDefault
    /\ message_bar = ""
    /\ pressed_quit = 0
    /\ should_quit = FALSE
    /\ disk = <<>>

-----------------------------------------------------------------------------
(* SpecLine: one Line, built by Line::from and driven through its mutations *)

LineMutations == {"insert_char_at", "remove_at", "split_off", "append", "pop",
                  "push_chr", "clear"}

\* the record of a Line operation: the Line before it and the Line it returned
LineOp(name, index, ch, ret) ==
    [op |-> name, index |-> index, ch |-> ch, before |-> ln, ret |-> ret]

\* what a Line operation leaves alone
LineFrame ==
    UNCHANGED <<bufferVars, viewVars, editorVars, should_quit, disk, al, hl, panic>>

InitLine ==
    /\ ln \in {LineFrom(s) : s \in SeqsUpTo(Chars, LnMaxLen)}
    /\ al = AnnotatedLineDefault
    /\ hl = HighlighterDefault
    /\ last = NoOp
    /\ panic = "none"
    /\ BufferIdle /\ ViewIdle /\ EditorIdle

LnInsertCharAt ==
    \E index \in 0..(GraphemeCount(ln) + 1), tf \in Chars :
        /\ Len(ln.string) < LnMaxLen
        /\ ln' = InsertCharAt(ln, index, tf)
        /\ last' = LineOp("insert_char_at", index, tf, LineDefault)
        /\ panic = "none"
        /\ panic = "none"
    /\ LineFrame

LnRemoveAt ==
    \E index \in 0..(GraphemeCount(ln) + 1) :
        /\ ln' = RemoveAt(ln, index)
        /\ last' = LineOp("remove_at", index, "", LineDefault)
        /\ panic = "none"
        /\ panic = "none"
    /\ LineFrame

LnSplitOff ==
    \E at \in 0..(GraphemeCount(ln) + 1) :
        /\ ln' = SplitOff(ln, at)[1]
        /\ last' = LineOp("split_off", at, "", SplitOff(ln, at)[2])
        /\ panic = "none"
        /\ panic = "none"
    /\ LineFrame

LnAppend ==
    \E s \in SeqsUpTo(Chars, LnMaxLen) :
        /\ Len(ln.string) + Len(s) <= LnMaxLen
        /\ ln' = LineAppend(ln, LineFrom(s))
        /\ last' = LineOp("append", 0, "", LineFrom(s))
        /\ panic = "none"
        /\ panic = "none"
    /\ LineFrame

LnPop ==
    /\ ln' = LinePop(ln)
    /\ last' = LineOp("pop", 0, "", LineDefault)
    /\ panic = "none"
    /\ LineFrame

LnPushChr ==
    \E ch \in Chars :
        /\ Len(ln.string) < LnMaxLen
        /\ ln' = PushChr(ln, ch)
        /\ last' = LineOp("push_chr", 0, ch, LineDefault)
        /\ panic = "none"
        /\ panic = "none"
    /\ LineFrame

LnClear ==
    /\ ln' = LineClear(ln)
    /\ last' = LineOp("clear", 0, "", LineDefault)
    /\ panic = "none"
    /\ LineFrame

-----------------------------------------------------------------------------
(* Claims about Line *)

\* the texts of the fragments of l, in order
FragmentTexts(l) == [k \in 1..Len(l.line) |-> l.line[k].grapheme]

\* seq with x inserted before its element at 0-based position i
InsertedAt(seq, i, x) == SubSeq(seq, 1, i) \o <<x>> \o SubSeq(seq, i + 1, Len(seq))

\* C8 as stated: for every Line L, every index i <= grapheme_count(L) and every
\* character c, insert_char_at(i, c) followed by remove_at(i) leaves L's text
\* exactly as it was.
C8_InsertRemoveRestores ==
    \A i \in 0..GraphemeCount(ln), c \in Chars :
        RemoveAt(InsertCharAt(ln, i, c), i).string = ln.string

\* C8 amended: the round trip restores the text for every character c that
\* becomes a grapheme of its own at index i and leaves every other grapheme of
\* the line as it was.
C8_InsertRemoveRestoresOwnGrapheme ==
    \A i \in 0..GraphemeCount(ln), c \in Chars :
        LET inserted == InsertCharAt(ln, i, c)
        IN  FragmentTexts(inserted) = InsertedAt(FragmentTexts(ln), i, <<c>>)
                => RemoveAt(inserted, i).string = ln.string

\* C8 witness: an insertion in the middle of a Line made a grapheme of its own,
\* and removing at the same index gives the text before the insertion.
C8_Witness ==
    /\ last.op = "insert_char_at"
    /\ 0 < last.index /\ last.index < GraphemeCount(last.before)
    /\ FragmentTexts(ln) = InsertedAt(FragmentTexts(last.before), last.index, <<last.ch>>)
    /\ RemoveAt(ln, last.index).string = last.before.string

\* the fragment list of l is the one derived from its text
FragmentsInSync(l) ==
    /\ l.line = StringToFragments(l.string)
    /\ Concat(FragmentTexts(l)) = l.string
    /\ \A k \in 1..Len(l.line) :
           l.line[k].start_index = ByteLen(Concat(SubSeq(FragmentTexts(l), 1, k - 1)))

\* C9: after every Line mutation the fragment list equals the list derived from
\* the current text: the fragments' texts concatenate to the text and fragment
\* k's byte offset is the sum of the byte lengths of the fragments before it.
C9_FragmentsInSync ==
    last.op \in LineMutations => FragmentsInSync(ln) /\ FragmentsInSync(last.ret)

\* C9 witness: a split left a multi-byte grapheme followed by another fragment.
C9_Witness ==
    /\ last.op = "split_off"
    /\ GraphemeCount(ln) = 2
    /\ ln.line[2].start_index > 2
    /\ last.ret.string # <<>>
    /\ FragmentsInSync(ln)

-----------------------------------------------------------------------------
(* AnnotatedLine (src/editor/annotated_line.rs) *)

\* the characters of an annotated line: ASCII, one byte each
AnnChars == {"a"}

\* Range::is_empty
RangeIsEmpty(range) == ~(range.start < range.end)

\* AnnotatedLine::from
AnnotatedLineFrom(str) == [line |-> str, annotations |-> <<>>]

\* mutant of PushAnnotation: the range is not tested
PushAnnotationUnguarded(a, range, ty) ==
    [a EXCEPT !.annotations = Append(@, [range |-> range, ty |-> ty])]

\* AnnotatedLine::push_annotation
PushAnnotation(a, range, ty) ==
    IF ~RangeIsEmpty(range)
    THEN [a EXCEPT !.annotations = Append(@, [range |-> range, ty |-> ty])]
    ELSE a

\* String::replace_range
ReplaceRange(s, range, replacement) ==
    SubSeq(s, 1, CharIndex(s, range.start)) \o replacement
        \o SubSeq(s, CharIndex(s, range.end) + 1, Len(s))

\* mutant of AdjustAnnotation: an annotation after the edit keeps its start
AdjustAnnotationEndOnly(ann, range, diff, widened) ==
    IF ann.range.end <= range.start THEN ann
    ELSE [ann EXCEPT !.range.end = IF widened THEN @ + diff ELSE SatSub(@, diff)]

\* AnnotatedLine::replace, the body of its loop over the annotations
AdjustAnnotation(ann, range, diff, widened) ==
    IF ann.range.end <= range.start THEN ann
    ELSE IF ann.range.start >= range.end
    THEN [ann EXCEPT !.range = IF widened
                                THEN [start |-> @.start + diff, end |-> @.end + diff]
                                ELSE [start |-> SatSub(@.start, diff),
                                      end   |-> SatSub(@.end, diff)]]
    ELSE [ann EXCEPT !.range.end = IF widened THEN @ + diff ELSE SatSub(@, diff)]

\* the test of annotations.retain
AnnotationNotEmpty(ann) == ~RangeIsEmpty(ann.range)

\* AnnotatedLine::replace
Replace(a, range, replacement) ==
    IF RangeIsEmpty(range) THEN a
    ELSE LET prev_len == ByteLen(a.line)
             line     == ReplaceRange(a.line, range, replacement)
             len      == ByteLen(line)
             diff     == IF len > prev_len THEN len - prev_len ELSE prev_len - len
             widened  == len > prev_len
         IN  IF diff = 0 THEN [a EXCEPT !.line = line]
             ELSE [line |-> line,
                   annotations |->
                       SelectSeq([k \in 1..Len(a.annotations) |->
                                     AdjustAnnotation(a.annotations[k], range, diff, widened)],
                                 AnnotationNotEmpty)]

-----------------------------------------------------------------------------
(* Line: substring search (src/editor/line.rs) *)

\* str::match_indices: the character positions (0-based) of the non-overlapping
\* occurrences of needle in hay at or after position p, left to right
RECURSIVE MatchIndices(_, _, _)
MatchIndices(hay, needle, p) ==
    IF needle = <<>> THEN [k \in 1..(Len(hay) + 1 - p) |-> p + k - 1]
    ELSE IF p + Len(needle) > Len(hay) THEN <<>>
    ELSE IF SubSeq(hay, p + 1, p + Len(needle)) = needle
    THEN <<p>> \o MatchIndices(hay, needle, p + Len(needle))
    ELSE MatchIndices(hay, needle, p + 1)

\* Line::byte_index_to_grapheme_index; -1 stands for panic!("Invalid byte index")
ByteIndexToGraphemeIndex(l, index) ==
    IF \E i \in 1..Len(l.line) : index <= l.line[i].start_index
    THEN (CHOOSE i \in 1..Len(l.line) :
             /\ index <= l.line[i].start_index
             /\ \A j \in 1..(i - 1) : index > l.line[j].start_index) - 1
    ELSE -1

\* Line::find_all over the byte range start..end: the byte index of every
\* occurrence and the grapheme index computed for it (str::get gives None, hence no occurrence, for a range
\* that is inverted, past the end or not on char boundaries)
FindAll(l, needle, start, end) ==
    IF start <= end /\ IsCharBoundary(l.string, start) /\ IsCharBoundary(l.string, end)
    THEN LET first == CharIndex(l.string, start)
             hay   == SubSeq(l.string, first + 1, CharIndex(l.string, end))
             found == MatchIndices(hay, needle, 0)
         IN  [k \in 1..Len(found) |->
                 [byte_index |-> ByteLen(SubSeq(l.string, 1, first + found[k])),
                  grapheme_index |->
                      ByteIndexToGraphemeIndex(l, ByteLen(SubSeq(l.string, 1, first + found[k])))]]
    ELSE <<>>

\* Line::grapheme_index_to_byte_index, the byte index it returns
GraphemeIndexToByteIndex(l, index) ==
    IF index < Len(l.line) THEN l.line[index + 1].start_index ELSE 0

\* Line::search_forward (the debug_assert of grapheme_index_to_byte_index
\* fails for from > grapheme_count)
LineSearchForward(l, needle, from) ==
    IF Len(l.line) = 0 THEN NoneFound
    ELSE IF from > Len(l.line) THEN Panicked
    ELSE LET all == FindAll(l, needle, GraphemeIndexToByteIndex(l, from), ByteLen(l.string))
         IN  IF \E k \in 1..Len(all) : all[k].grapheme_index = -1 THEN Panicked
             ELSE IF all = <<>> THEN NoneFound
             ELSE Found(all[1].grapheme_index)

\* Line::search_backwards (the debug_assert of grapheme_index_to_byte_index
\* fails for to - 1 > grapheme_count)
LineSearchBackwards(l, needle, to) ==
    IF Len(l.line) = 0 THEN NoneFound
    ELSE IF SatSub(to, 1) > Len(l.line) THEN Panicked
    ELSE LET at           == SatSub(to, 1)
             to_byte      == GraphemeIndexToByteIndex(l, at)
             grapheme_len == IF at < Len(l.line) THEN ByteLen(l.line[at + 1].grapheme) ELSE 0
             all          == FindAll(l, needle, 0, to_byte + grapheme_len)
         IN  IF \E k \in 1..Len(all) : all[k].grapheme_index = -1 THEN Panicked
             ELSE IF all = <<>> THEN NoneFound
             ELSE Found(all[Len(all)].grapheme_index)

-----------------------------------------------------------------------------
(* Line::get (src/editor/line.rs) *)

\* Line::get, its loop over the fragments in reverse, at fragment k (1-based)
RECURSIVE GetLoop(_, _, _, _)
GetLoop(l, result, k, range) ==
    IF k = 0 THEN result
    ELSE LET fragment       == l.line[k]
             fragment_start == fragment.start_index
             fragment_end   == fragment_start + ByteLen(fragment.grapheme)
             end            == ByteLen(l.string)
         IN  IF fragment_start >= range.end THEN GetLoop(l, result, k - 1, range)
             ELSE IF fragment_end >= range.end
             THEN GetLoop(l, Replace(result, [start |-> fragment_start, end |-> end],
                                     <<Ellipsis>>), k - 1, range)
             ELSE IF fragment_end <= range.start
             THEN Replace(result, [start |-> 0, end |-> fragment_end], <<>>)
             ELSE IF fragment_start < range.start
             THEN Replace(result, [start |-> 0, end |-> fragment_end], <<Ellipsis>>)
             ELSE IF fragment.replacement # "none"
             THEN GetLoop(l, Replace(result, [start |-> fragment_start, end |-> fragment_end],
                                     <<fragment.replacement>>), k - 1, range)
             ELSE GetLoop(l, result, k - 1, range)

\* Line::get, the annotations pushed for the matches mats of needle
RECURSIVE PushMatches(_, _, _)
PushMatches(result, mats, needle) ==
    IF mats = <<>> THEN result
    ELSE PushMatches(PushAnnotation(result,
                                    [start |-> Head(mats).byte_index,
                                     end   |-> Head(mats).byte_index + ByteLen(needle)],
                                    "Match"),
                     Tail(mats), needle)

\* Line::get: the AnnotatedLine returned, or Panicked
Get(l, range, query) ==
    IF RangeIsEmpty(range) THEN Found(AnnotatedLineDefault)
    ELSE LET mats == IF query.kind = "Some"
                     THEN FindAll(l, query.value, 0, ByteLen(l.string)) ELSE <<>>
         IN  IF \E k \in 1..Len(mats) : mats[k].grapheme_index = -1 THEN Panicked
             ELSE Found(GetLoop(l, PushMatches(AnnotatedLineFrom(l.string), mats,
                                               IF query.kind = "Some" THEN query.value ELSE <<>>),
                                Len(l.line), range))

-----------------------------------------------------------------------------
(* SpecLine, the read operations of a Line *)

\* the queries given to Line::get
GetQueries == {NoneFound, Found(<<"a">>), Found(<<"m">>)}

\* Line::get over a window of display columns, as View::draw calls it
LnGet ==
    \E start \in 0..(LnMaxLen + 1), end \in 0..(LnMaxLen + 1), query \in GetQueries :
        /\ panic = "none"
        /\ LET r == Get(ln, [start |-> start, end |-> end], query)
           IN  /\ last' = [op |-> "get", range |-> [start |-> start, end |-> end],
                           query |-> query, ret |-> r]
               /\ panic' = IF r.kind = "Panic" THEN "Invalid byte index" ELSE "none"
        /\ UNCHANGED <<bufferVars, viewVars, editorVars, should_quit, disk, ln, al, hl>>

\* the needles searched for in a Line
LnNeedles == {<<>>, <<"a">>, <<"W">>, <<"m">>, <<"a", "m">>}

\* Line::search_forward with a bound in [0, grapheme_count]
LnSearchForward ==
    \E needle \in LnNeedles, from \in 0..GraphemeCount(ln) :
        /\ panic = "none"
        /\ LET r == LineSearchForward(ln, needle, from)
           IN  /\ last' = [op |-> "search_forward", needle |-> needle, bound |-> from,
                           ret |-> r]
               /\ panic' = IF r.kind = "Panic" THEN "Invalid byte index" ELSE "none"
        /\ UNCHANGED <<bufferVars, viewVars, editorVars, should_quit, disk, ln, al, hl>>

\* Line::search_backwards with a bound in [0, grapheme_count]
LnSearchBackwards ==
    \E needle \in LnNeedles, to \in 0..GraphemeCount(ln) :
        /\ panic = "none"
        /\ LET r == LineSearchBackwards(ln, needle, to)
           IN  /\ last' = [op |-> "search_backwards", needle |-> needle, bound |-> to,
                           ret |-> r]
               /\ panic' = IF r.kind = "Panic" THEN "Invalid byte index" ELSE "none"
        /\ UNCHANGED <<bufferVars, viewVars, editorVars, should_quit, disk, ln, al, hl>>

NextLine ==
    \/ LnSearchForward
    \/ LnSearchBackwards
    \/ LnInsertCharAt
    \/ LnRemoveAt
    \/ LnSplitOff
    \/ LnAppend
    \/ LnPop
    \/ LnPushChr
    \/ LnClear
    \/ LnGet

SpecLine == InitLine /\ [][NextLine]_vars

-----------------------------------------------------------------------------
(* Claims about Line::get *)

\* the display columns [from, to) of fragment k of l
FragmentColumns(l, k) ==
    [from |-> WidthUntil(l, k - 1), to |-> WidthUntil(l, k)]

\* the glyph C13 gives fragment k of l in the window range of display columns
C13_Glyph(l, k, range) ==
    LET cols == FragmentColumns(l, k)
    IN  IF cols.to <= range.start \/ cols.from >= range.end THEN <<>>
        ELSE IF cols.from < range.start \/ cols.to > range.end THEN <<Ellipsis>>
        ELSE IF l.line[k].replacement # "none" THEN <<l.line[k].replacement>>
        ELSE l.line[k].grapheme

\* C13: Line::get(start..end) returns the empty text when start >= end;
\* otherwise its text is, in order, one glyph per fragment whose columns
\* intersect the window [start, end) of display columns: the truncation glyph
\* if the fragment's columns are not entirely inside the window, else the
\* fragment's glyph override if it has one, else the fragment's own text, so
\* that a fragment entirely inside is never replaced by the truncation glyph.
C13_GetWindow ==
    (last.op = "get" /\ last.ret.kind = "Some") =>
        last.ret.value.line = IF last.range.start >= last.range.end THEN <<>>
                  ELSE Concat([k \in 1..Len(ln.line) |-> C13_Glyph(ln, k, last.range)])

-----------------------------------------------------------------------------
(* AnnotatedLineIterator (src/editor/annotated_line.rs) *)

\* &line[start..end]; Panicked when the range is not inside the text
Slice(str, start, end) ==
    IF start <= end /\ IsCharBoundary(str, start) /\ IsCharBoundary(str, end)
    THEN Found(SubSeq(str, CharIndex(str, start) + 1, CharIndex(str, end)))
    ELSE Panicked

\* mutant of IterNext: the iteration ends only past the end of the line
IterNextPastEnd(a, index) ==
    LET Current(ann) == ann.range.start <= index /\ index < ann.range.end
        Ahead(ann)   == ann.range.start >= index
        current      == SelectSeq(a.annotations, Current)
        ahead        == SelectSeq(a.annotations, Ahead)
        Part(text, ty, from, to) ==
            IF text.kind = "Panic" THEN Panicked
            ELSE Found([str |-> text.value, ty |-> ty, start |-> from, index |-> to])
    IN  IF index > ByteLen(a.line) THEN NoneFound
        ELSE IF current # <<>>
        THEN LET ann == current[Len(current)]
             IN  Part(Slice(a.line, ann.range.start, ann.range.end), ann.ty,
                      ann.range.start, ann.range.end)
        ELSE IF ahead # <<>>
        THEN Part(Slice(a.line, index, ahead[1].range.start), "None",
                  index, ahead[1].range.start)
        ELSE Part(Slice(a.line, index, ByteLen(a.line)), "None", index, ByteLen(a.line))

\* AnnotatedLineIterator::next with the iterator at index: the part returned
\* and the index the iterator is left at
IterNext(a, index) ==
    LET Current(ann) == ann.range.start <= index /\ index < ann.range.end
        Ahead(ann)   == ann.range.start >= index
        current      == SelectSeq(a.annotations, Current)
        ahead        == SelectSeq(a.annotations, Ahead)
        Part(text, ty, from, to) ==
            IF text.kind = "Panic" THEN Panicked
            ELSE Found([str |-> text.value, ty |-> ty, start |-> from, index |-> to])
    IN  IF index >= ByteLen(a.line) THEN NoneFound
        ELSE IF current # <<>>
        THEN LET ann == current[Len(current)]
             IN  Part(Slice(a.line, ann.range.start, ann.range.end), ann.ty,
                      ann.range.start, ann.range.end)
        ELSE IF ahead # <<>>
        THEN Part(Slice(a.line, index, ahead[1].range.start), "None",
                  index, ahead[1].range.start)
        ELSE Part(Slice(a.line, index, ByteLen(a.line)), "None", index, ByteLen(a.line))

\* the parts of one full iteration that starts with the iterator at index,
\* each with the byte range its text was sliced from (a slice that panics ends
\* the iteration)
RECURSIVE IterParts(_, _)
IterParts(a, index) ==
    LET n == IterNext(a, index)
    IN  IF n.kind = "None" THEN <<>>
        ELSE IF n.kind = "Panic" THEN << Panicked >>
        ELSE << [kind |-> "Some", str |-> n.value.str, ty |-> n.value.ty,
                  range |-> [start |-> n.value.start, end |-> n.value.index]] >>
                 \o IterParts(a, n.value.index)

-----------------------------------------------------------------------------
(* Highlighter (src/editor/highlighter.rs) *)

\* Highlighter::new
HighlighterNew(len, query, selected_match, file_type) ==
    [file_type |-> file_type, query |-> query, selected_match |-> selected_match,
     highlighting |-> [k \in 1..len |-> <<>>]]

\* Highlighter::matches, the annotation pushed for the occurrence mat
MatchAnnotation(h, row, needle, mat) ==
    LET from  == mat.byte_index
        to    == from + ByteLen(needle)
        to_gr == mat.grapheme_index + ByteLen(needle)
    IN  [range |-> [start |-> from, end |-> to],
         ty    |-> IF /\ h.selected_match.kind = "Some"
                      /\ h.selected_match.value.line_index = row
                      /\ h.selected_match.value.grapheme_index >= mat.grapheme_index
                      /\ h.selected_match.value.grapheme_index < to_gr
                   THEN "SelectedMatch" ELSE "Match"]

\* Highlighter::matches: the Highlighter after it, or Panicked
Matches(h, row, line) ==
    IF h.query.kind = "Some"
    THEN LET all == FindAll(line, h.query.value, 0, ByteLen(line.string))
         IN  IF \E k \in 1..Len(all) : all[k].grapheme_index = -1 THEN Panicked
             ELSE Found([h EXCEPT !.highlighting[row + 1] =
                            @ \o [k \in 1..Len(all) |->
                                     MatchAnnotation(h, row, h.query.value, all[k])]])
    ELSE Found(h)

\* Highlighter::highlight for FileType::PlainText
Highlight(h, row, line) == Matches(h, row, line)

\* the characters of the words given to Highlighter::number
NumChars == {"0", "1", "7", "9", "f", "b", "B", "e", "x", "o", "_", "."}

\* char::to_digit: the value of a digit or letter, 36 for any other character
DigitValue(ch) ==
    CASE ch = "0" -> 0  [] ch = "1" -> 1  [] ch = "7" -> 7  [] ch = "9" -> 9
      [] ch \in {"b", "B"} -> 11
      [] ch = "e" -> 14 [] ch = "f" -> 15 [] ch = "o" -> 24 [] ch = "x" -> 33
      [] OTHER -> 36

\* char::is_digit
IsDigit(ch, base) == DigitValue(ch) < base

\* Highlighter::number, its loop from the character i (0-based) on: "None"
\* where it returns None, else the value of one_more after the last character
RECURSIVE NumberLoop(_, _, _, _, _)
NumberLoop(num, i, base, dot, one_more) ==
    IF i >= Len(num) THEN [kind |-> "Done", one_more |-> one_more]
    ELSE LET ch == num[i + 1]
         IN  CASE ch = "_" -> NumberLoop(num, i + 1, base, dot, one_more)
               [] ch = "." -> IF dot THEN [kind |-> "None"]
                              ELSE NumberLoop(num, i + 1, base, TRUE, one_more)
               [] ch = "e" -> NumberLoop(num, i + 1, base, TRUE, TRUE)
               [] ch \in {"b", "B"} -> IF i # 1 THEN [kind |-> "None"]
                                       ELSE NumberLoop(num, i + 1, 2, dot, TRUE)
               [] ch = "o" -> IF i # 1 THEN [kind |-> "None"]
                              ELSE NumberLoop(num, i + 1, 8, dot, TRUE)
               [] ch = "x" -> IF i # 1 THEN [kind |-> "None"]
                              ELSE NumberLoop(num, i + 1, 16, dot, TRUE)
               [] OTHER    -> IF ~IsDigit(ch, base) THEN [kind |-> "None"]
                              ELSE NumberLoop(num, i + 1, base, dot, FALSE)

\* Highlighter::number; num.len() is the length in bytes, one per character
\* of the words
Number(num) ==
    LET r == NumberLoop(num, 0, 10, FALSE, FALSE)
    IN  IF r.kind = "Done" /\ ~r.one_more
        THEN Found([range |-> [start |-> 0, end |-> Len(num)], ty |-> "Number"])
        ELSE NoneFound

-----------------------------------------------------------------------------
(* SpecAnn: one AnnotatedLine, built by AnnotatedLine::from and driven through
   push_annotation, replace and a full iteration, next to one Highlighter of
   one row, built by Highlighter::new and driven through highlight.  replace
   is given ranges inside the line, as String::replace_range requires. *)

\* the most annotations a row has when highlight is called on it
HlMaxAnn == 2

\* the most characters of a line given to highlight
HlMaxLen == 2

\* the rows of the Highlighter
HlRows == 1

\* the queries a Highlighter is built with
HlQueries == {NoneFound} \cup {Found(q) : q \in {<<>>, <<"a">>, <<"W">>, <<"m">>, <<"a", "a">>}}

\* the selected matches a Highlighter is built with: none, or a Location on
\* the row or on the one below it
HlSelected ==
    {NoneFound} \cup {Found([line_index |-> r, grapheme_index |-> g]) :
                          r \in 0..HlRows, g \in 0..(HlMaxLen - 1)}

AnnFrame ==
    UNCHANGED <<bufferVars, viewVars, editorVars, should_quit, disk, ln, hl, panic>>

InitAnn ==
    /\ \/ /\ al \in {AnnotatedLineFrom(s) : s \in SeqsUpTo(AnnChars, AnnMaxLen)}
          /\ hl = HighlighterDefault
       \/ /\ al = AnnotatedLineDefault
          /\ hl \in {HighlighterNew(HlRows, q, on, "PlainText") :
                        q \in HlQueries, on \in HlSelected}
    /\ ln = LineDefault
    /\ last = NoOp
    /\ panic = "none"
    /\ BufferIdle /\ ViewIdle /\ EditorIdle

AlPushAnnotation ==
    \E start \in 0..ByteLen(al.line), end \in 0..ByteLen(al.line), ty \in {"Match"} :
        /\ panic = "none"
        /\ Len(al.annotations) < AnnMaxAnn
        /\ al' = PushAnnotation(al, [start |-> start, end |-> end], ty)
        /\ last' = [op |-> "push_annotation", range |-> [start |-> start, end |-> end],
                    replacement |-> <<>>, before |-> al]
        /\ AnnFrame

AlReplace ==
    \E start \in 0..ByteLen(al.line), end \in 0..ByteLen(al.line),
       replacement \in SeqsUpTo(AnnChars, AnnMaxRepl) :
        /\ panic = "none"
        /\ ByteLen(al.line) + ByteLen(replacement) - Max(end - start, 0) <= AnnMaxLen
        /\ al' = Replace(al, [start |-> start, end |-> end], replacement)
        /\ last' = [op |-> "replace", range |-> [start |-> start, end |-> end],
                    replacement |-> replacement, before |-> al]
        /\ AnnFrame

\* for part in &annotated_line: one full iteration
AlIterate ==
    /\ panic = "none"
    /\ last' = [op |-> "iterate", parts |-> IterParts(al, 0)]
    /\ panic' = IF \E k \in 1..Len(IterParts(al, 0)) : IterParts(al, 0)[k].kind = "Panic"
                THEN "byte index out of bounds" ELSE "none"
    /\ UNCHANGED <<bufferVars, viewVars, editorVars, should_quit, disk, ln, al, hl>>

\* Highlighter::highlight on one row
HlHighlight ==
    \E row \in 0..(Len(hl.highlighting) - 1), s \in SeqsUpTo(Chars, HlMaxLen) :
        /\ panic = "none"
        /\ Len(hl.highlighting[row + 1]) < HlMaxAnn
        /\ LET r == Highlight(hl, row, LineFrom(s))
           IN  /\ hl' = IF r.kind = "Panic" THEN hl ELSE r.value
               /\ panic' = IF r.kind = "Panic" THEN "Invalid byte index" ELSE "none"
        /\ last' = [op |-> "highlight", row |-> row, line |-> LineFrom(s), before |-> hl]
        /\ UNCHANGED <<bufferVars, viewVars, editorVars, should_quit, disk, ln, al>>

NextAnn ==
    \/ AlPushAnnotation
    \/ AlReplace
    \/ AlIterate
    \/ HlHighlight

SpecAnn == InitAnn /\ [][NextAnn]_vars

-----------------------------------------------------------------------------
(* SpecNumber: a Highlighter of a Rust file; rust_highlighting is given lines
   of one word that starts with an ASCII digit *)

\* the longest word
NumMaxLen == 4

\* the words: they start with an ASCII digit, as rust_highlighting requires
\* of the words it gives to number
NumWords ==
    { w \in SeqsUpTo(NumChars, NumMaxLen) : w # <<>> /\ w[1] \in {"0", "1", "7", "9"} }

InitNumber ==
    /\ hl = HighlighterNew(HlRows, NoneFound, NoneFound, "Rust")
    /\ al = AnnotatedLineDefault
    /\ ln = LineDefault
    /\ last = NoOp
    /\ panic = "none"
    /\ BufferIdle /\ ViewIdle /\ EditorIdle

\* Highlighter::rust_highlighting on the row of a new Highlighter, the line
\* one word: the annotation of number, if any, is pushed
HlNumber ==
    /\ last.op # "number"
    /\ \E word \in NumWords :
          LET ann == Number(word)
          IN  /\ hl' = IF ann.kind = "Some"
                       THEN [hl EXCEPT !.highlighting[1] = Append(@, ann.value)]
                       ELSE hl
              /\ last' = [op |-> "number", word |-> word, ret |-> ann]
    /\ UNCHANGED <<bufferVars, viewVars, editorVars, should_quit, disk, ln, al, panic>>

\* the Highlighter of the next draw
HlNew ==
    /\ last.op = "number"
    /\ hl' = HighlighterNew(HlRows, NoneFound, NoneFound, "Rust")
    /\ last' = [op |-> "new"]
    /\ UNCHANGED <<bufferVars, viewVars, editorVars, should_quit, disk, ln, al, panic>>

NextNumber ==
    \/ HlNumber
    \/ HlNew

SpecNumber == InitNumber /\ [][NextNumber]_vars

\* the radix the second character of a word selects
Radix(w) ==
    IF Len(w) < 2 THEN 10
    ELSE CASE w[2] = "x" -> 16
           [] w[2] = "o" -> 8
           [] w[2] \in {"b", "B"} -> 2
           [] OTHER -> 10

\* the positions (1-based) of w that hold the radix prefix letter, a decimal
\* point, an exponent marker, an underscore
PrefixAt(w, k)     == k = 2 /\ w[k] \in {"x", "o", "b", "B"}
PointAt(w, k)      == w[k] = "."
UnderscoreAt(w, k) == w[k] = "_"
ExponentAt(w, k)   == w[k] = "e" /\ ~PrefixAt(w, k) /\ ~IsDigit("e", Radix(w))

DigitAt(w, k) ==
    /\ ~(PrefixAt(w, k) \/ PointAt(w, k) \/ UnderscoreAt(w, k) \/ ExponentAt(w, k))
    /\ IsDigit(w[k], Radix(w))

\* a well-formed literal, as C32 defines it; a word ends right after a prefix
\* or exponent marker when no digit follows the marker
WellFormedLiteral(w) ==
    /\ Cardinality({k \in 1..Len(w) : PointAt(w, k)}) <= 1
    /\ Cardinality({k \in 1..Len(w) : ExponentAt(w, k)}) <= 1
    /\ \A k \in 1..Len(w) :
           \/ PrefixAt(w, k) \/ PointAt(w, k) \/ UnderscoreAt(w, k) \/ ExponentAt(w, k)
           \/ DigitAt(w, k)
    /\ \A k \in 1..Len(w) :
           (PrefixAt(w, k) \/ ExponentAt(w, k)) => \E j \in (k + 1)..Len(w) : DigitAt(w, j)

\* C32: Highlighter::number annotates a word as a Number, over its whole
\* length, exactly when it is a well-formed literal: the radix prefix letter
\* only as the second character, at most one decimal point and one exponent
\* marker, underscores ignored, every other character a digit of the selected
\* radix, and no end right after a prefix or exponent marker.
C32_NumberIffWellFormed ==
    last.op = "number" =>
        /\ last.ret.kind = "Some" <=> WellFormedLiteral(last.word)
        /\ last.ret.kind = "Some" =>
               last.ret.value = [range |-> [start |-> 0, end |-> Len(last.word)],
                                 ty |-> "Number"]

-----------------------------------------------------------------------------
(* Claims about AnnotatedLine::replace *)

\* the length change of the replace recorded in last: new length - old length
ReplaceDelta == ByteLen(last.replacement) - (last.range.end - last.range.start)

\* the range C10 gives an annotation with range r after last's replace
C10_Shifted(r) ==
    IF r.end <= last.range.start THEN r
    ELSE IF r.start >= last.range.end
    THEN [start |-> r.start + ReplaceDelta, end |-> r.end + ReplaceDelta]
    ELSE [start |-> r.start, end |-> r.end + ReplaceDelta]

C10_ShiftedAnnotation(ann) == [ann EXCEPT !.range = C10_Shifted(ann.range)]

C10_ShiftedNotEmpty(ann) == C10_Shifted(ann.range).start < C10_Shifted(ann.range).end

\* C10 as stated: a replace with a non-empty range and diff # 0 leaves every
\* annotation in place with its range unchanged (end <= range.start), shifted at
\* both ends (start >= range.end) or shifted at its end only (every other one);
\* with diff = 0 or an empty range no annotation changes.
C10_ReplaceShiftsEvery ==
    last.op = "replace" =>
        IF RangeIsEmpty(last.range) \/ ReplaceDelta = 0
        THEN al.annotations = last.before.annotations
        ELSE al.annotations =
                 [k \in 1..Len(last.before.annotations) |->
                     C10_ShiftedAnnotation(last.before.annotations[k])]

\* C10 amended: as stated, except that an annotation whose range is empty after
\* the shift (end - diff <= start) is removed; the others keep their order.
C10_ReplaceShiftsOrDrops ==
    last.op = "replace" =>
        IF RangeIsEmpty(last.range) \/ ReplaceDelta = 0
        THEN al.annotations = last.before.annotations
        ELSE al.annotations =
                 [k \in 1..Len(SelectSeq(last.before.annotations, C10_ShiftedNotEmpty)) |->
                     C10_ShiftedAnnotation(
                         SelectSeq(last.before.annotations, C10_ShiftedNotEmpty)[k])]

\* C10 witness: a shrinking replace before an annotation moved it left at both
\* ends, as in "foo bar baz" [4,7) with [0,4) replaced by "X".
C10_Witness ==
    /\ last.op = "replace"
    /\ ReplaceDelta < 0
    /\ Len(last.before.annotations) = 2
    /\ last.before.annotations[2].range.start >= last.range.end
    /\ last.before.annotations[1].range.start < last.range.end
    /\ Len(al.annotations) = 2
    /\ al.annotations[2].range.start = last.before.annotations[2].range.start + ReplaceDelta
    /\ al.annotations[2].range.end = last.before.annotations[2].range.end + ReplaceDelta
    /\ al.annotations[1].range.start = last.before.annotations[1].range.start
    /\ al.annotations[1].range.end < last.before.annotations[1].range.end

-----------------------------------------------------------------------------
(* Claims about stored annotations *)

C11_HighlightRecorded ==
    /\ last.op = "highlight"
    /\ panic = "none"
    /\ Len(hl.highlighting[1]) = Len(last.before.highlighting[1]) + 2

\* the index the iterator was at when it returned part k of parts
IndexBefore(parts, k) == IF k = 1 THEN 0 ELSE parts[k - 1].range.end

\* the annotations of a that cover the byte index
Covering(a, index) ==
    {k \in 1..Len(a.annotations) :
        a.annotations[k].range.start <= index /\ index < a.annotations[k].range.end}

\* the length of an annotation's range
RangeLen(ann) == ann.range.end - ann.range.start

\* C25: when several annotations cover the iterator's byte position, the part
\* returned is the full span of the longest covering annotation, with that
\* annotation's kind, whatever the order in which the annotations were
\* pushed.
C25_LongestCovering ==
    last.op = "iterate" =>
        \A k \in 1..Len(last.parts) :
            (last.parts[k].kind = "Some" /\ Covering(al, IndexBefore(last.parts, k)) # {}) =>
                \E c \in Covering(al, IndexBefore(last.parts, k)) :
                    /\ \A d \in Covering(al, IndexBefore(last.parts, k)) :
                           RangeLen(al.annotations[d]) <= RangeLen(al.annotations[c])
                    /\ last.parts[k].range = al.annotations[c].range
                    /\ last.parts[k].ty = al.annotations[c].ty

\* C26: when no annotation covers the iterator's byte position, the plain part
\* returned ends at the smallest annotation start greater than the position,
\* or at the end of the line when there is none, whatever the order in which
\* the annotations were pushed: a plain part skips no annotation.
C26_PlainPartToNextStart ==
    (last.op = "iterate" /\ (\A c \in 1..Len(al.annotations) : al.annotations[c].range.end <= ByteLen(al.line))) =>
        \A k \in 1..Len(last.parts) :
            (last.parts[k].kind = "Some" /\ Covering(al, IndexBefore(last.parts, k)) = {}) =>
                LET index  == IndexBefore(last.parts, k)
                    starts == {al.annotations[c].range.start : c \in 1..Len(al.annotations)}
                    ahead  == {b \in starts : b > index}
                IN  /\ last.parts[k].ty = "None"
                    /\ last.parts[k].range.start = index
                    /\ last.parts[k].range.end =
                           IF ahead = {} THEN ByteLen(al.line)
                           ELSE CHOOSE b \in ahead : \A e \in ahead : b <= e

\* C27: iterating an AnnotatedLine terminates: for the annotation lists built
\* through push_annotation and replace, a call of next that returns a part
\* leaves the iterator's byte index greater than it was, and next returns None
\* once the index has reached the length of the line.
C27_IterationTerminates ==
    \A index \in 0..(AnnMaxLen + 1) :
        /\ IterNext(al, index).kind = "Some" => IterNext(al, index).value.index > index
        /\ index >= ByteLen(al.line) => IterNext(al, index).kind = "None"

\* C27 witness: an iteration over a line with two annotations returned three
\* parts, each leaving the index greater, and ended at the end of the line.
C27_Witness ==
    /\ last.op = "iterate"
    /\ Len(last.parts) = 3
    /\ \A k \in 1..3 : last.parts[k].kind = "Some"
                         /\ last.parts[k].range.end > IndexBefore(last.parts, k)
    /\ last.parts[3].range.end = ByteLen(al.line)
    /\ Len(al.annotations) = 2

\* the annotations are pairwise non-overlapping
Disjoint(annotations) ==
    \A i \in 1..Len(annotations), j \in 1..Len(annotations) :
        i < j => \/ annotations[i].range.end <= annotations[j].range.start
                 \/ annotations[j].range.end <= annotations[i].range.start

\* C40: AnnotatedLine::replace preserves disjointness: if the annotations are
\* pairwise non-overlapping before a replace they are pairwise non-overlapping
\* after it, for every range and replacement.
C40_ReplaceKeepsDisjoint ==
    (last.op = "replace" /\ panic = "none" /\ Disjoint(last.before.annotations)) =>
        Disjoint(al.annotations)

\* every annotation of a lies within its line
AnnotationsWithinLine(a) ==
    \A k \in 1..Len(a.annotations) : a.annotations[k].range.end <= ByteLen(a.line)

\* the texts of parts, in order
PartTexts(parts) == [k \in 1..Len(parts) |-> parts[k].str]

\* C12: for an AnnotatedLine whose annotations lie within the line, the texts
\* of the parts of one full iteration, concatenated in order, are the whole
\* line, and each byte of the line is in exactly one part: the parts' byte
\* ranges follow one another from 0 to the length of the line.
C12_IterationReconstructs ==
    (last.op = "iterate" /\ AnnotationsWithinLine(al)) =>
        /\ \A k \in 1..Len(last.parts) : last.parts[k].kind = "Some"
        /\ Concat(PartTexts(last.parts)) = al.line
        /\ \A k \in 1..Len(last.parts) :
               /\ last.parts[k].range.start =
                      (IF k = 1 THEN 0 ELSE last.parts[k - 1].range.end)
               /\ k = Len(last.parts) => last.parts[k].range.end = ByteLen(al.line)

\* the grapheme indexes of l whose fragments hold bytes of the range from..to
GraphemesOfBytes(l, from, to) ==
    {i \in 0..(Len(l.line) - 1) :
        /\ l.line[i + 1].start_index < to
        /\ l.line[i + 1].start_index + ByteLen(l.line[i + 1].grapheme) > from}

\* the annotation C19 gives the occurrence of needle at the character position
\* p of l, on the row row of the Highlighter h
C19_Annotation(h, row, l, needle, p) ==
    LET from == ByteLen(SubSeq(l.string, 1, p))
        to   == from + ByteLen(needle)
    IN  [range |-> [start |-> from, end |-> to],
         ty    |-> IF /\ h.selected_match.kind = "Some"
                      /\ h.selected_match.value.line_index = row
                      /\ h.selected_match.value.grapheme_index \in GraphemesOfBytes(l, from, to)
                   THEN "SelectedMatch" ELSE "Match"]

\* the annotations the highlight recorded in last added to its row
C19_Added ==
    SubSeq(hl.highlighting[last.row + 1],
           Len(last.before.highlighting[last.row + 1]) + 1,
           Len(hl.highlighting[last.row + 1]))

\* C19: for a row and a non-empty needle, highlight adds one annotation per
\* occurrence of the needle in the line, over that occurrence's bytes, of type
\* SelectedMatch exactly when the selected match is on the row and its
\* grapheme index is in the occurrence's grapheme range, Match otherwise: at
\* most one of them is SelectedMatch.  (Stated for the highlights that return.)
C19_OneAnnotationPerOccurrence ==
    (/\ last.op = "highlight"
     /\ panic = "none"
     /\ hl.query.kind = "Some"
     /\ hl.query.value # <<>>) =>
        /\ C19_Added =
               [k \in 1..Len(MatchIndices(last.line.string, hl.query.value, 0)) |->
                   C19_Annotation(hl, last.row, last.line, hl.query.value,
                                  MatchIndices(last.line.string, hl.query.value, 0)[k])]
        /\ Cardinality({k \in 1..Len(C19_Added) : C19_Added[k].ty = "SelectedMatch"}) <= 1

-----------------------------------------------------------------------------
(* Buffer (src/editor/view/buffer.rs).  The operations act on a value v that
   holds the View and its Buffer: [lines, dirty, file_info, text_location,
   scroll_offset, size, needs_redraw, search_term, panic]. *)

\* Buffer::height
Height(v) == Len(v.lines)

\* mutant of BufInsertChar: the character goes to the end of the line
BufInsertCharAtEnd(v, character, at) ==
    LET d == [v EXCEPT !.dirty = TRUE]
    IN  IF at.line_index = Height(v)
        THEN [d EXCEPT !.lines = Append(@, LineFrom(<<character>>))]
        ELSE IF at.line_index < Height(v)
        THEN [d EXCEPT !.lines[at.line_index + 1] = PushChr(@, character)]
        ELSE [d EXCEPT !.panic = "insert_char: unwrap on None"]

\* Buffer::insert_char
BufInsertChar(v, character, at) ==
    LET d == [v EXCEPT !.dirty = TRUE]
    IN  IF at.line_index = Height(v)
        THEN [d EXCEPT !.lines = Append(@, LineFrom(<<character>>))]
        ELSE IF at.line_index < Height(v)
        THEN [d EXCEPT !.lines[at.line_index + 1] =
                           InsertCharAt(@, at.grapheme_index, character)]
        ELSE [d EXCEPT !.panic = "insert_char: unwrap on None"]

\* delete marking the Buffer dirty only when it removes something
BufDeleteDirtyIfChanged(v, at) ==
    LET y == at.line_index + 1
    IN  IF at.line_index < Height(v)
        THEN IF at.grapheme_index < GraphemeCount(v.lines[y])
             THEN [v EXCEPT !.dirty = TRUE, !.lines[y] = RemoveAt(@, at.grapheme_index)]
             ELSE IF at.line_index + 1 < Height(v)
             THEN [v EXCEPT !.dirty = TRUE,
                            !.lines =
                       SubSeq(v.lines, 1, y - 1)
                           \o << LineAppend(v.lines[y], v.lines[y + 1]) >>
                           \o SubSeq(v.lines, y + 2, Len(v.lines))]
             ELSE v
        ELSE v

\* mutant of BufDelete: the line after is never merged
BufDeleteNoMerge(v, at) ==
    LET d == [v EXCEPT !.dirty = TRUE]
        y == at.line_index + 1
    IN  IF at.line_index < Height(v) /\ at.grapheme_index < GraphemeCount(v.lines[y])
        THEN [d EXCEPT !.lines[y] = RemoveAt(@, at.grapheme_index)]
        ELSE d

\* Buffer::delete
BufDelete(v, at) ==
    LET d == [v EXCEPT !.dirty = TRUE]
        y == at.line_index + 1
    IN  IF at.line_index < Height(v)
        THEN IF at.grapheme_index < GraphemeCount(v.lines[y])
             THEN [d EXCEPT !.lines[y] = RemoveAt(@, at.grapheme_index)]
             ELSE IF at.line_index + 1 < Height(v)
             THEN [d EXCEPT !.lines =
                       SubSeq(v.lines, 1, y - 1)
                           \o << LineAppend(v.lines[y], v.lines[y + 1]) >>
                           \o SubSeq(v.lines, y + 2, Len(v.lines))]
             ELSE d
        ELSE d

\* mutant of BufInsertNewline: an empty line is inserted, the line is not split
BufInsertNewlineNoSplit(v, at) ==
    LET d == [v EXCEPT !.dirty = TRUE]
        y == at.line_index + 1
    IN  IF at.line_index < Height(v)
        THEN [d EXCEPT !.lines = SubSeq(v.lines, 1, y) \o << LineDefault >>
                                     \o SubSeq(v.lines, y + 1, Len(v.lines))]
        ELSE [d EXCEPT !.lines = Append(@, LineDefault)]

\* Buffer::insert_newline
BufInsertNewline(v, at) ==
    LET d == [v EXCEPT !.dirty = TRUE]
        y == at.line_index + 1
    IN  IF at.line_index < Height(v)
        THEN [d EXCEPT !.lines =
                  SubSeq(v.lines, 1, y - 1)
                      \o << SplitOff(v.lines[y], at.grapheme_index)[1],
                            SplitOff(v.lines[y], at.grapheme_index)[2] >>
                      \o SubSeq(v.lines, y + 1, Len(v.lines))]
        ELSE [d EXCEPT !.lines = Append(@, LineDefault)]

\* the locations given to the Buffer's operations: in the document, on the
\* line after its last and beyond both
BufLocations ==
    {[line_index |-> l, grapheme_index |-> g] : l \in 0..(MaxLines + 1), g \in 0..(MaxChars + 1)}

\* the loops of Buffer::find_from: the first line among ls[y+1 .. stop] (0-based
\* y .. stop-1) in which the needle is found; line first is searched from
\* grapheme from, the others from their start
RECURSIVE ScanLines(_, _, _, _, _, _)
ScanLines(ls, needle, y, stop, first, from) ==
    IF y >= stop THEN NoneFound
    ELSE LET r == LineSearchForward(ls[y + 1], needle, IF y = first THEN from ELSE 0)
         IN  IF r.kind = "None" THEN ScanLines(ls, needle, y + 1, stop, first, from)
             ELSE IF r.kind = "Panic" THEN Panicked
             ELSE Found([grapheme_index |-> r.value, line_index |-> y])

\* Buffer::find_from with times = 0, the search for the first occurrence: the
\* Buffer's forward search.  Its line.find(needle, from) is the Line's forward
\* search, Line::search_forward.
FindFrom(ls, needle, start_location) ==
    LET tail == ScanLines(ls, needle, start_location.line_index, Len(ls),
                          start_location.line_index, start_location.grapheme_index)
    IN  IF tail.kind # "None" THEN tail
        ELSE IF start_location.line_index > Len(ls) THEN NoneFound
        ELSE ScanLines(ls, needle, 0, start_location.line_index, Len(ls), 0)

\* Buffer::search_backwards, the lines y, y - 1, .. stop (0-based) scanned in
\* reverse order: the last occurrence in the first of them that holds the
\* needle; line first is searched up to grapheme to, the others to their end
RECURSIVE ScanLinesBackwards(_, _, _, _, _, _)
ScanLinesBackwards(ls, needle, y, stop, first, to) ==
    IF y < stop THEN NoneFound
    ELSE LET r == LineSearchBackwards(ls[y + 1], needle,
                                      IF y = first THEN to ELSE GraphemeCount(ls[y + 1]))
         IN  IF r.kind = "None" THEN ScanLinesBackwards(ls, needle, y - 1, stop, first, to)
             ELSE IF r.kind = "Panic" THEN Panicked
             ELSE Found([grapheme_index |-> r.value, line_index |-> y])

\* Buffer::search_backwards: the line of from up to from.grapheme_index, the
\* lines before it in reverse order, then, wrapping, the lines from the last
\* one down to the line of from
BufSearchBackwards(ls, needle, from) ==
    LET head == ScanLinesBackwards(ls, needle, Min(from.line_index, Len(ls) - 1), 0,
                                   from.line_index, from.grapheme_index)
    IN  IF head.kind # "None" THEN head
        ELSE ScanLinesBackwards(ls, needle, Len(ls) - 1, from.line_index, Len(ls), 0)

-----------------------------------------------------------------------------
(* View (src/editor/view.rs) *)

Directions == {"Up", "Down", "Left", "Right", "PageUp", "PageDown", "Home", "End"}

\* the grapheme count of the line under the cursor, 0 on the virtual last line
CurrentLineLen(v) ==
    IF v.text_location.line_index < Height(v)
    THEN GraphemeCount(v.lines[v.text_location.line_index + 1])
    ELSE 0

\* View::snap_to_grapheme
SnapToGrapheme(v) ==
    [v EXCEPT !.text_location.grapheme_index =
        IF v.text_location.line_index < Height(v)
        THEN Min(@, SatSub(CurrentLineLen(v), 1))
        ELSE 0]

\* snap_to_valid_line without the clamp
SnapToValidLineNoClamp(v) == v

\* View::snap_to_valid_line
SnapToValidLine(v) ==
    [v EXCEPT !.text_location.line_index = Min(@, Height(v))]

\* mutant of MoveUpBy: the grapheme index is kept as it is
MoveUpByNoSnap(v, count) ==
    [v EXCEPT !.text_location.line_index = SatSub(@, count)]

\* View::move_up_by
MoveUpBy(v, count) ==
    SnapToGrapheme([v EXCEPT !.text_location.line_index = SatSub(@, count)])

\* mutant of MoveDownBy: the grapheme index is kept as it is
MoveDownByNoSnap(v, count) ==
    SnapToValidLine([v EXCEPT !.text_location.line_index = @ + count])

\* View::move_down_by
MoveDownBy(v, count) ==
    SnapToValidLine(SnapToGrapheme([v EXCEPT !.text_location.line_index = @ + count]))

\* View::move_start_of_line
MoveStartOfLine(v) == [v EXCEPT !.text_location.grapheme_index = 0]

\* View::move_end_of_line
MoveEndOfLine(v) == [v EXCEPT !.text_location.grapheme_index = CurrentLineLen(v)]

\* View::move_right
MoveRight(v) ==
    IF v.text_location.grapheme_index < CurrentLineLen(v)
    THEN [v EXCEPT !.text_location.grapheme_index = @ + 1]
    ELSE IF v.text_location.line_index < Height(v)
    THEN MoveStartOfLine(MoveDownBy(v, 1))
    ELSE v

\* mutant of MoveLeft: at the start of a line the cursor stays
MoveLeftNoWrap(v) ==
    IF v.text_location.grapheme_index > 0
    THEN [v EXCEPT !.text_location.grapheme_index = @ - 1]
    ELSE v

\* View::move_left
MoveLeft(v) ==
    IF v.text_location.grapheme_index > 0
    THEN [v EXCEPT !.text_location.grapheme_index = @ - 1]
    ELSE IF v.text_location.line_index > 0
    THEN MoveEndOfLine(MoveUpBy(v, 1))
    ELSE v

\* View::text_location_to_position
TextLocationToPosition(v) ==
    [x |-> IF v.text_location.line_index < Height(v)
           THEN WidthUntil(v.lines[v.text_location.line_index + 1],
                           v.text_location.grapheme_index)
           ELSE 0,
     y |-> v.text_location.line_index]

\* mutant of ScrollOrizontally: past the right edge the offset becomes the
\* cursor's column
ScrollOrizontallyToCursor(v, to) ==
    IF to < v.scroll_offset.x
    THEN [v EXCEPT !.scroll_offset.x = to, !.needs_redraw = TRUE]
    ELSE IF to >= v.scroll_offset.x + v.size.width
    THEN [v EXCEPT !.scroll_offset.x = to, !.needs_redraw = TRUE]
    ELSE v

\* View::scroll_orizontally
ScrollOrizontally(v, to) ==
    IF to < v.scroll_offset.x
    THEN [v EXCEPT !.scroll_offset.x = to, !.needs_redraw = TRUE]
    ELSE IF to >= v.scroll_offset.x + v.size.width
    THEN [v EXCEPT !.scroll_offset.x = SatSub(to, v.size.width) + 1,
                   !.needs_redraw = TRUE]
    ELSE v

\* scroll_vertically placing the offset one row short when scrolling down
ScrollVerticallyOneShort(v, to) ==
    IF to < v.scroll_offset.y
    THEN [v EXCEPT !.scroll_offset.y = to, !.needs_redraw = TRUE]
    ELSE IF to >= v.scroll_offset.y + v.size.height
    THEN [v EXCEPT !.scroll_offset.y = SatSub(to, v.size.height),
                   !.needs_redraw = TRUE]
    ELSE v

\* View::scroll_vertically
ScrollVertically(v, to) ==
    IF to < v.scroll_offset.y
    THEN [v EXCEPT !.scroll_offset.y = to, !.needs_redraw = TRUE]
    ELSE IF to >= v.scroll_offset.y + v.size.height
    THEN [v EXCEPT !.scroll_offset.y = SatSub(to, v.size.height) + 1,
                   !.needs_redraw = TRUE]
    ELSE v

\* View::scroll_location
ScrollLocation(v) ==
    ScrollVertically(ScrollOrizontally(v, TextLocationToPosition(v).x),
                     TextLocationToPosition(v).y)

\* View::handle_movement
HandleMovement(v, mov) ==
    ScrollLocation(
        CASE mov = "Up"       -> MoveUpBy(v, 1)
          [] mov = "Left"     -> MoveLeft(v)
          [] mov = "Right"    -> MoveRight(v)
          [] mov = "Down"     -> MoveDownBy(v, 1)
          [] mov = "End"      -> MoveEndOfLine(v)
          [] mov = "Home"     -> MoveStartOfLine(v)
          [] mov = "PageUp"   -> MoveUpBy(v, SatSub(v.size.height, 1))
          [] mov = "PageDown" -> MoveDownBy(v, SatSub(v.size.height, 1)))

\* View::handle_insertion (inserting never shortens the line, so the code's
\* unchecked new_len - old_len does not go below zero)
HandleInsertion(v, sy) ==
    LET b == BufInsertChar(v, sy, v.text_location)
    IN  IF b.panic # "none" THEN b
        ELSE IF CurrentLineLen(b) - CurrentLineLen(v) > 0
        THEN [HandleMovement(b, "Right") EXCEPT !.needs_redraw = TRUE]
        ELSE b

\* View::handle_deletion
HandleDeletion(v) ==
    [BufDelete(v, v.text_location) EXCEPT !.needs_redraw = TRUE]

\* mutant of HandleBackspace: the grapheme under the cursor is deleted
HandleBackspaceInPlace(v) ==
    IF v.text_location.line_index # 0 \/ v.text_location.grapheme_index # 0
    THEN HandleDeletion(v)
    ELSE v

\* View::handle_backspace
HandleBackspace(v) ==
    IF v.text_location.line_index # 0 \/ v.text_location.grapheme_index # 0
    THEN HandleDeletion(HandleMovement(v, "Left"))
    ELSE v

\* View::handle_enter
HandleEnter(v) ==
    [HandleMovement(HandleMovement(BufInsertNewline(v, v.text_location), "Down"), "Home")
        EXCEPT !.needs_redraw = TRUE]

\* mutant of CenterScreen: the midpoints are rounded down
CenterScreenFloor(v) ==
    [v EXCEPT !.scroll_offset =
                  [x |-> SatSub(TextLocationToPosition(v).x, v.size.width \div 2),
                   y |-> SatSub(TextLocationToPosition(v).y, v.size.height \div 2)],
              !.needs_redraw = TRUE]

\* View::center_screen
CenterScreen(v) ==
    [v EXCEPT !.scroll_offset =
                  [x |-> SatSub(TextLocationToPosition(v).x, (v.size.width + 1) \div 2),
                   y |-> SatSub(TextLocationToPosition(v).y, (v.size.height + 1) \div 2)],
              !.needs_redraw = TRUE]

\* the jump of View::search, search_next and search_prev to a found location
JumpTo(v, location) ==
    LET moved == [v EXCEPT !.text_location = location]
    IN  CenterScreen(ScrollVertically(moved, moved.text_location.line_index))

\* View::search; the Buffer's forward search it calls is find_from
Search(v) ==
    IF v.search_term = <<>> THEN v
    ELSE LET found == FindFrom(v.lines, v.search_term, v.text_location)
         IN  CASE found.kind = "Some"  -> JumpTo(v, found.value)
               [] found.kind = "None"  -> v
               [] found.kind = "Panic" -> [v EXCEPT !.panic = "Invalid byte index"]

\* View::search_next
SearchNext(v) ==
    IF v.search_term = <<>> THEN v
    ELSE LET r     == MoveRight(v)
             found == FindFrom(r.lines, r.search_term, r.text_location)
         IN  CASE found.kind = "Some"  -> JumpTo(r, found.value)
               [] found.kind = "None"  -> MoveLeft(r)
               [] found.kind = "Panic" -> [r EXCEPT !.panic = "Invalid byte index"]

\* View::search_prev
SearchPrev(v) ==
    IF v.search_term = <<>> THEN v
    ELSE LET l     == MoveLeft(v)
             found == BufSearchBackwards(l.lines, l.search_term, l.text_location)
         IN  CASE found.kind = "Some"  -> JumpTo(l, found.value)
               [] found.kind = "None"  -> MoveRight(l)
               [] found.kind = "Panic" -> [l EXCEPT !.panic = "Invalid byte index"]

\* what the search of search_next and of search_prev returns
NextOccurrence(v) ==
    LET r == MoveRight(v) IN FindFrom(r.lines, r.search_term, r.text_location)
PrevOccurrence(v) ==
    LET l == MoveLeft(v) IN BufSearchBackwards(l.lines, l.search_term, l.text_location)

\* View::set_size
SetSize(v, sz) == ScrollLocation([v EXCEPT !.size = sz])

\* UiComponent::resize
Resize(v, sz) == [SetSize(v, sz) EXCEPT !.needs_redraw = TRUE]

\* UiComponent::render
Render(v) == IF v.needs_redraw THEN [v EXCEPT !.needs_redraw = FALSE] ELSE v

\* Editor::refresh_screen, the View's part: nothing is drawn on a terminal
\* without columns or rows, the View only on one of more than two rows (the
\* View has the terminal's rows but two)
RefreshScreen(v) ==
    IF v.size.width = 0 \/ v.size.height = 0 THEN v ELSE Render(v)

-----------------------------------------------------------------------------
(* Spec: the View and its Buffer, driven through the View's methods *)

\* the View and its Buffer as one value, and its assignment to the state
ViewState ==
    [lines |-> lines, dirty |-> dirty, file_info |-> file_info,
     text_location |-> text_location, scroll_offset |-> scroll_offset,
     size |-> size, needs_redraw |-> needs_redraw, search_term |-> search_term,
     panic |-> panic]

SetView(v) ==
    /\ lines' = v.lines
    /\ dirty' = v.dirty
    /\ file_info' = v.file_info
    /\ text_location' = v.text_location
    /\ scroll_offset' = v.scroll_offset
    /\ size' = v.size
    /\ needs_redraw' = v.needs_redraw
    /\ search_term' = v.search_term
    /\ panic' = v.panic

\* View::default
ViewDefault ==
    [lines |-> <<>>, dirty |-> FALSE, file_info |-> FileInfoDefault,
     text_location |-> LocationDefault, scroll_offset |-> PositionDefault,
     size |-> SizeDefault, needs_redraw |-> FALSE, search_term |-> <<>>,
     panic |-> "none"]

\* the characters of the document
RECURSIVE DocChars(_)
DocChars(ls) == IF ls = <<>> THEN 0 ELSE Len(Head(ls).string) + DocChars(Tail(ls))

\* the sizes Terminal::size reports; its failure gives the default, 0 x 0
TerminalSizes == { [width |-> 0, height |-> 0], [width |-> 1, height |-> 3],
                   [width |-> 2, height |-> 3], [width |-> 3, height |-> 4] }

\* the size Editor::resize gives the View
ViewSize(sz) == [width |-> sz.width, height |-> SatSub(sz.height, 2)]

\* the search terms entered
Needles == { <<>>, <<"a">>, <<"m">> }

\* the files the editor is started on, as the lines Buffer::load reads
LoadedDocs ==
    { [k \in 1..Len(ss) |-> LineFrom(ss[k])] :
        ss \in { t \in SeqsUpTo(SeqsUpTo(Chars, MaxChars), MaxLines) :
                   DocChars([k \in 1..Len(t) |-> [string |-> t[k]]]) <= MaxChars } }

ViewFrame == UNCHANGED <<editorVars, should_quit, disk, ln, al, hl>>

\* the View after Editor::new: the file loaded, the View resized
Init ==
    /\ \E doc \in LoadedDocs, sz \in TerminalSizes :
          LET v == Resize([ViewDefault EXCEPT !.lines = doc, !.needs_redraw = TRUE],
                          ViewSize(sz))
          IN  /\ lines = v.lines
              /\ dirty = v.dirty
              /\ file_info = v.file_info
              /\ text_location = v.text_location
              /\ scroll_offset = v.scroll_offset
              /\ size = v.size
              /\ needs_redraw = v.needs_redraw
              /\ search_term = v.search_term
              /\ panic = v.panic
    /\ EditorIdle
    /\ ln = LineDefault
    /\ al = AnnotatedLineDefault
    /\ hl = HighlighterDefault
    /\ last = NoOp

ViewHandleMovement ==
    /\ panic = "none"
    /\ \E mov \in Directions :
          /\ SetView(HandleMovement(ViewState, mov))
          /\ last' = [op |-> "handle_movement", mov |-> mov, at |-> text_location,
                      scroll |-> scroll_offset, redraw |-> needs_redraw]
    /\ ViewFrame

ViewHandleInsertion ==
    /\ panic = "none"
    /\ \E sy \in Chars :
          /\ DocChars(lines) < MaxChars
          /\ text_location.line_index < Height(ViewState) \/ Height(ViewState) < MaxLines
          /\ SetView(HandleInsertion(ViewState, sy))
          /\ last' = [op |-> "handle_insertion", sy |-> sy, at |-> text_location,
                      before |-> lines]
    /\ ViewFrame

ViewHandleEnter ==
    /\ panic = "none"
    /\ Height(ViewState) < MaxLines
    /\ SetView(HandleEnter(ViewState))
    /\ last' = [op |-> "handle_enter", at |-> text_location, before |-> lines]
    /\ ViewFrame

ViewHandleDeletion ==
    /\ panic = "none"
    /\ SetView(HandleDeletion(ViewState))
    /\ last' = [op |-> "handle_deletion", at |-> text_location, before |-> lines]
    /\ ViewFrame

ViewHandleBackspace ==
    /\ panic = "none"
    /\ SetView(HandleBackspace(ViewState))
    /\ last' = [op |-> "handle_backspace", at |-> text_location, before |-> lines,
                dirty |-> dirty]
    /\ ViewFrame

ViewSetSearchTerm ==
    /\ panic = "none"
    /\ \E term \in Needles :
          /\ SetView([ViewState EXCEPT !.search_term = term])
          /\ last' = [op |-> "set_search_term"]
    /\ ViewFrame

ViewSearch ==
    /\ panic = "none"
    /\ SetView(Search(ViewState))
    /\ last' = [op |-> "search",
                found |-> IF search_term = <<>> THEN "None"
                          ELSE FindFrom(lines, search_term, text_location).kind]
    /\ ViewFrame

ViewSearchNext ==
    /\ panic = "none"
    /\ SetView(SearchNext(ViewState))
    /\ last' = [op |-> "search_next", at |-> text_location,
                found |-> IF search_term = <<>> THEN "None"
                          ELSE NextOccurrence(ViewState).kind]
    /\ ViewFrame

ViewSearchPrev ==
    /\ panic = "none"
    /\ SetView(SearchPrev(ViewState))
    /\ last' = [op |-> "search_prev", at |-> text_location,
                found |-> IF search_term = <<>> THEN "None"
                          ELSE PrevOccurrence(ViewState).kind]
    /\ ViewFrame

\* UiComponent::render: a redraw that is due is made
ViewRender ==
    /\ panic = "none"
    /\ needs_redraw
    /\ RefreshScreen(ViewState) # ViewState
    /\ SetView(RefreshScreen(ViewState))
    /\ last' = [op |-> "render"]
    /\ ViewFrame

Next ==
    \/ ViewHandleMovement
    \/ ViewHandleInsertion
    \/ ViewHandleEnter
    \/ ViewHandleDeletion
    \/ ViewHandleBackspace
    \/ ViewSetSearchTerm
    \/ ViewSearch
    \/ ViewSearchNext
    \/ ViewSearchPrev
    \/ ViewRender

Spec == Init /\ [][Next]_vars

-----------------------------------------------------------------------------
(* Claims on the View and the Buffer *)

\* C1: after every View::handle_movement, in a viewport of at least one column
\* and one row, the cursor's column width_until(grapheme_index) lies in
\* [scroll_offset.x, scroll_offset.x + columns) and its row line_index lies in
\* [scroll_offset.y, scroll_offset.y + rows).
C1_ScrollFollow ==
    (last.op = "handle_movement" /\ size.width >= 1 /\ size.height >= 1) =>
        /\ scroll_offset.x <= TextLocationToPosition(ViewState).x
        /\ TextLocationToPosition(ViewState).x < scroll_offset.x + size.width
        /\ scroll_offset.y <= TextLocationToPosition(ViewState).y
        /\ TextLocationToPosition(ViewState).y < scroll_offset.y + size.height

\* a movement that had to scroll both ways to keep the cursor in view
C1_Witness ==
    /\ last.op = "handle_movement"
    /\ size.width >= 1 /\ size.height >= 1
    /\ scroll_offset.x > 0 /\ scroll_offset.y > 0
    /\ TextLocationToPosition(ViewState).x = scroll_offset.x + size.width - 1
    /\ TextLocationToPosition(ViewState).y = scroll_offset.y + size.height - 1

\* C2: the cursor is always valid: line_index is at most the line count and
\* grapheme_index at most the grapheme count of the addressed line (0 on the
\* virtual last line); and Buffer::insert_char's unwrap has not panicked.
C2_CursorValid ==
    /\ text_location.line_index <= Len(lines)
    /\ text_location.grapheme_index <= CurrentLineLen(ViewState)
    /\ panic # "insert_char: unwrap on None"

\* a Backspace that joined two lines left the cursor on the seam, and an
\* insertion on the virtual last line pushed a new line
C2_Witness ==
    \/ /\ last.op = "handle_backspace"
       /\ Len(lines) = 1
       /\ text_location.grapheme_index = 1
       /\ CurrentLineLen(ViewState) = 2
    \/ /\ last.op = "handle_insertion"
       /\ text_location.line_index = Len(lines) - 1
       /\ Len(lines) = MaxLines
       /\ CurrentLineLen(ViewState) = 1

\* needle occurs in Line l at grapheme index i: the text from the start of
\* that grapheme on begins with needle
OccursAt(l, needle, i) ==
    /\ i < Len(l.line)
    /\ LET first == CharIndex(l.string, l.line[i + 1].start_index)
       IN  /\ first + Len(needle) <= Len(l.string)
           /\ SubSeq(l.string, first + 1, first + Len(needle)) = needle

Occurrences(ls, needle) ==
    { loc \in [line_index : 0..(Len(ls) - 1), grapheme_index : 0..MaxChars] :
        OccursAt(ls[loc.line_index + 1], needle, loc.grapheme_index) }

\* the place of a location in the cyclic order that starts at from: the rest of
\* line l, the lines after it, the lines before it, then line l from its start
CyclicPhase(loc, from) ==
    IF loc.line_index = from.line_index
    THEN IF loc.grapheme_index >= from.grapheme_index THEN 0 ELSE 3
    ELSE IF loc.line_index > from.line_index THEN 1 ELSE 2

CyclicBefore(a, b, from) ==
    \/ CyclicPhase(a, from) < CyclicPhase(b, from)
    \/ /\ CyclicPhase(a, from) = CyclicPhase(b, from)
       /\ \/ a.line_index < b.line_index
          \/ a.line_index = b.line_index /\ a.grapheme_index <= b.grapheme_index

CyclicFirst(ls, needle, from) ==
    IF Occurrences(ls, needle) = {} THEN NoneFound
    ELSE Found(CHOOSE a \in Occurrences(ls, needle) :
                   \A b \in Occurrences(ls, needle) : CyclicBefore(a, b, from))

\* C6: the Buffer's forward search from the cursor returns the first occurrence
\* of the needle in cyclic order (line l from grapheme g on, the lines after l,
\* the lines before l, then line l again from its start), and none only if the
\* needle occurs in no line.  (Stated for the searches that return.)
C6_SearchForwardCyclic ==
    \A needle \in Needles \ {<<>>} :
        FindFrom(lines, needle, text_location).kind # "Panic" =>
            FindFrom(lines, needle, text_location) =
                CyclicFirst(lines, needle, text_location)

-----------------------------------------------------------------------------
(* Claims about the editor's event loop *)

\* the cursor's position is inside the viewport
CursorInViewport ==
    LET pos == TextLocationToPosition(ViewState)
    IN  /\ scroll_offset.x <= pos.x /\ pos.x < scroll_offset.x + size.width
        /\ scroll_offset.y <= pos.y /\ pos.y < scroll_offset.y + size.height

\* C21: when a Resize(new_size) event has been processed, in whichever mode it
\* arrived, the viewport size is new_size less the two bar rows and the cursor
\* lies inside the resized viewport.
C21_ResizeApplied ==
    last.op = "Resize" =>
        /\ size = ViewSize(last.size)
        /\ CursorInViewport

\* C20: no input event accepted in any mode makes the editor panic: every
\* command process_normal_command forwards to View::handle_command, the
\* ExitSearch of Esc included, is one handle_command handles, so that its
\* unreachable! arm is never executed.
C20_NoEventPanics ==
    /\ panic = "none"
    /\ last.op \in {"Move", "Resize", "ExitSearch"} =>
           panic # "internal error: entered unreachable code"

-----------------------------------------------------------------------------
(* Claims about the search in a Line *)

\* the grapheme indexes of l at which needle occurs
LineOccurrences(l, needle) == {i \in 0..Len(l.line) : OccursAt(l, needle, i)}

\* the smallest grapheme index i >= from at which needle occurs in l, if any
FirstOccurrenceFrom(l, needle, from) ==
    LET is == {i \in LineOccurrences(l, needle) : i >= from}
    IN  IF is = {} THEN NoneFound
        ELSE Found(CHOOSE i \in is : \A j \in is : i <= j)

\* C17: Line::search_forward(needle, from) returns the smallest grapheme index
\* i >= from at which needle occurs, or None when there is none, for every from
\* in [0, grapheme_count], from = grapheme_count included.  (Stated for the
\* searches that return.)
C17_SearchForwardFirst ==
    (last.op = "search_forward" /\ last.ret.kind # "Panic") =>
        last.ret = FirstOccurrenceFrom(ln, last.needle, last.bound)

\* the byte index at which grapheme i of l starts, the length of the text for
\* i = grapheme count
GraphemeStart(l, i) == IF i < Len(l.line) THEN l.line[i + 1].start_index ELSE ByteLen(l.string)

\* the greatest grapheme index at which an occurrence of needle lies entirely
\* within the graphemes [0, to) of l, if any
LastOccurrenceWithin(l, needle, to) ==
    LET is == {i \in LineOccurrences(l, needle) :
                  GraphemeStart(l, i) + ByteLen(needle) <= GraphemeStart(l, to)}
    IN  IF is = {} THEN NoneFound
        ELSE Found(CHOOSE i \in is : \A j \in is : j <= i)

\* C28: Line::search_backwards(needle, to) returns the greatest grapheme index
\* at which an occurrence of needle lies entirely within the graphemes [0, to),
\* or None when there is none, for every to in [0, grapheme_count], to = 0
\* (an empty range) included.  (Stated for the searches that return.)
C28_SearchBackwardsLast ==
    (last.op = "search_backwards" /\ last.ret.kind # "Panic") =>
        last.ret = LastOccurrenceWithin(ln, last.needle, last.bound)

\* C18: Line::search_forward and Line::search_backwards never panic, for any
\* needle and any bound in [0, grapheme_count], needles that occur inside a
\* grapheme included.
C18_SearchNeverPanics ==
    last.op \in {"search_forward", "search_backwards"} =>
        last.ret.kind # "Panic" /\ panic = "none"

-----------------------------------------------------------------------------
(* Claims about the Buffer's edits *)

\* the text of the first g graphemes of l, and the text of the others
TextBefore(l, g) == Concat(SubSeq(FragmentTexts(l), 1, Min(g, GraphemeCount(l))))
TextFrom(l, g)   == Concat(SubSeq(FragmentTexts(l), g + 1, GraphemeCount(l)))

\* C14 for the lines before and after of one insert_newline at at
InsertNewlineSplits(before, at, after) ==
    LET l == at.line_index
        g == at.grapheme_index
    IN  IF l < Len(before)
        THEN /\ Len(after) = Len(before) + 1
             /\ after[l + 1].string = TextBefore(before[l + 1], g)
             /\ after[l + 2].string = TextFrom(before[l + 1], g)
             /\ g >= GraphemeCount(before[l + 1]) =>
                    after[l + 2].string = <<>> /\ after[l + 1] = before[l + 1]
             /\ \A k \in 1..Len(before) :
                    /\ k < l + 1 => after[k] = before[k]
                    /\ k > l + 1 => after[k + 1] = before[k]
        ELSE /\ Len(after) = Len(before) + 1
             /\ after[Len(after)].string = <<>>
             /\ SubSeq(after, 1, Len(before)) = before

\* C14: Buffer::insert_newline at (l, g): with l < line count the count grows
\* by one, line l keeps its first g graphemes and a new line l+1 holds the
\* rest (an empty line, line l untouched, when g >= its grapheme count), every
\* other line unchanged; with l >= line count exactly one empty line is
\* appended.
C14_InsertNewline ==
    \A at \in BufLocations :
        InsertNewlineSplits(lines, at, BufInsertNewline(ViewState, at).lines)

\* C14 witness: Enter inside a line split it into two non-empty lines.
C14_Witness ==
    /\ last.op = "handle_enter"
    /\ last.at.line_index < Len(last.before)
    /\ 0 < last.at.grapheme_index
    /\ last.at.grapheme_index < GraphemeCount(last.before[last.at.line_index + 1])
    /\ InsertNewlineSplits(last.before, last.at, lines)

\* C15 for the lines before and after of one delete at at
DeleteRemovesOrMerges(before, at, after) ==
    LET l == at.line_index
        g == at.grapheme_index
    IN  IF l < Len(before) /\ g < GraphemeCount(before[l + 1])
        THEN /\ Len(after) = Len(before)
             /\ after[l + 1].string =
                    TextBefore(before[l + 1], g) \o TextFrom(before[l + 1], g + 1)
             /\ \A k \in 1..Len(before) : k # l + 1 => after[k] = before[k]
        ELSE IF l + 1 < Len(before)
        THEN /\ Len(after) = Len(before) - 1
             /\ after[l + 1].string = before[l + 1].string \o before[l + 2].string
             /\ \A k \in 1..Len(before) :
                    /\ k < l + 1 => after[k] = before[k]
                    /\ k > l + 2 => after[k - 1] = before[k]
        ELSE after = before

\* C15: Buffer::delete at (l, g): if line l has a grapheme at g it is removed
\* and the line count is unchanged; else if line l+1 exists it is merged into
\* line l, the count drops by one and the concatenated text is unchanged; else
\* no line changes.
C15_Delete ==
    \A at \in BufLocations :
        DeleteRemovesOrMerges(lines, at, BufDelete(ViewState, at).lines)

\* C15 witness: Delete at the end of a non-empty line merged the non-empty
\* line after it.
C15_Witness ==
    /\ last.op = "handle_deletion"
    /\ Len(last.before) = Len(lines) + 1
    /\ last.at.grapheme_index > 0
    /\ last.before[last.at.line_index + 2].string # <<>>
    /\ DeleteRemovesOrMerges(last.before, last.at, lines)

\* C16 for the lines before and after of one insert_char of ch at at
InsertCharInserts(before, ch, at, after) ==
    LET l == at.line_index
        g == at.grapheme_index
    IN  IF l = Len(before)
        THEN after = Append(before, LineFrom(<<ch>>))
        ELSE l < Len(before) =>
             /\ Len(after) = Len(before)
             /\ after[l + 1].string =
                    TextBefore(before[l + 1], g) \o <<ch>> \o TextFrom(before[l + 1], g)
             /\ \A k \in 1..Len(before) : k # l + 1 => after[k] = before[k]

\* C16: Buffer::insert_char(ch, (l, g)): with l = line count a new line of ch
\* alone is appended; with l < line count ch is inserted before grapheme g of
\* line l (appended when g >= its grapheme count) and the line count is
\* unchanged; every other line is unchanged.
C16_InsertChar ==
    \A at \in BufLocations, ch \in Chars :
        InsertCharInserts(lines, ch, at, BufInsertChar(ViewState, ch, at).lines)

\* C16 witness: a character typed inside a line was inserted before the
\* grapheme under the cursor.
C16_Witness ==
    /\ last.op = "handle_insertion"
    /\ last.at.line_index < Len(last.before)
    /\ last.at.grapheme_index < GraphemeCount(last.before[last.at.line_index + 1])
    /\ Len(lines) = 2
    /\ InsertCharInserts(last.before, last.sy, last.at, lines)

-----------------------------------------------------------------------------
(* Claims about the View's movements.  last holds the movement made, the
   Location, the scroll offset and the redraw flag before it. *)

\* the grapheme count of line l of the document, 0 for the virtual last line
LineLen(l) == IF l < Len(lines) THEN GraphemeCount(lines[l + 1]) ELSE 0

\* the N of a vertical movement
MoveCount(mov) == IF mov \in {"Up", "Down"} THEN 1 ELSE SatSub(size.height, 1)

\* the line C22 gives a vertical movement from line l
C22_TargetLine(mov, l) ==
    IF mov \in {"Up", "PageUp"} THEN Max(l - MoveCount(mov), 0)
    ELSE Min(l + MoveCount(mov), Len(lines))

\* C22: moving Up or Down by N (1 for Up and Down, the viewport's rows - 1 for
\* PageUp and PageDown) sets line_index to max(line_index - N, 0) or
\* min(line_index + N, line count), and grapheme_index to min(the grapheme
\* index before, the target line's grapheme count - 1), or to 0 when the
\* target line is empty or is the virtual line past the end.
C22_VerticalMove ==
    (last.op = "handle_movement" /\ last.mov \in {"Up", "Down", "PageUp", "PageDown"}) =>
        LET target == C22_TargetLine(last.mov, last.at.line_index)
        IN  /\ text_location.line_index = target
            /\ text_location.grapheme_index =
                   IF LineLen(target) = 0 THEN 0
                   ELSE Min(last.at.grapheme_index, LineLen(target) - 1)

\* C22 witness: Down from the end of a line onto a shorter line that is not
\* empty snapped the grapheme index to that line's last grapheme.
C22_Witness ==
    /\ last.op = "handle_movement" /\ last.mov = "Down"
    /\ text_location.line_index = last.at.line_index + 1
    /\ LineLen(text_location.line_index) > 0
    /\ last.at.grapheme_index > text_location.grapheme_index
    /\ text_location.grapheme_index = LineLen(text_location.line_index) - 1

\* a vertical movement that cannot change line_index: Up or PageUp on line 0,
\* Down or PageDown on the virtual line past the end, PageUp or PageDown with
\* a viewport of at most one row
C39_CannotChangeLine ==
    /\ last.op = "handle_movement"
    /\ \/ last.mov \in {"Up", "PageUp"} /\ last.at.line_index = 0
       \/ last.mov \in {"Down", "PageDown"} /\ last.at.line_index = Len(lines)
       \/ last.mov \in {"PageUp", "PageDown"} /\ size.height <= 1

\* C39 as claimed: a vertical movement that cannot change line_index leaves
\* grapheme_index unchanged, it is a no-op on the cursor Location.
C39_VerticalNoOp ==
    C39_CannotChangeLine => text_location = last.at

\* C39: a vertical movement that cannot change line_index leaves the Location
\* unchanged unless the cursor is at the end of a line that is not empty, one
\* past its last grapheme; from there it steps back onto the last grapheme.
C39_VerticalNoOpOrSnap ==
    C39_CannotChangeLine =>
        LET l == last.at.line_index
            g == last.at.grapheme_index
        IN  IF g > 0 /\ g = LineLen(l)
            THEN text_location = [line_index |-> l, grapheme_index |-> g - 1]
            ELSE text_location = last.at

\* C39 witness: PageDown in a viewport of one row, the cursor at the end of a
\* line of two graphemes, stepped back onto the last grapheme
C39_Witness ==
    /\ last.op = "handle_movement" /\ last.mov = "PageDown"
    /\ size.height = 1
    /\ last.at.line_index < Len(lines)
    /\ last.at.grapheme_index = 2
    /\ LineLen(last.at.line_index) = 2
    /\ text_location = [line_index |-> last.at.line_index, grapheme_index |-> 1]

\* the Location C23 gives Left and Right from at, the last line being the
\* line whose index is last_line
C23_Target(mov, at, last_line) ==
    IF mov = "Left"
    THEN IF at.grapheme_index > 0
         THEN [at EXCEPT !.grapheme_index = @ - 1]
         ELSE IF at.line_index > 0
         THEN [line_index |-> at.line_index - 1, grapheme_index |-> LineLen(at.line_index - 1)]
         ELSE at
    ELSE IF at.grapheme_index < LineLen(at.line_index)
         THEN [at EXCEPT !.grapheme_index = @ + 1]
         ELSE IF at.line_index # last_line
         THEN [line_index |-> at.line_index + 1, grapheme_index |-> 0]
         ELSE at

\* C23 as stated: Left decrements grapheme_index when it is > 0, otherwise
\* moves to the end of the previous line when not on the first line, otherwise
\* changes nothing; Right increments grapheme_index when it is below the
\* line's grapheme count, otherwise moves to grapheme 0 of the next line only
\* when the cursor is not on the last line of the document, and leaves the
\* Location unchanged at the end of the last line.
C23_LeftRightLastLine ==
    (last.op = "handle_movement" /\ last.mov \in {"Left", "Right"} /\ Len(lines) > 0) =>
        text_location = C23_Target(last.mov, last.at, Len(lines) - 1)

\* C23 amended: as stated, the line Right does not leave being the virtual
\* line past the end (line_index = line count): from the end of the last
\* line of the document Right moves to grapheme 0 of the virtual line.
C23_LeftRightVirtualLine ==
    (last.op = "handle_movement" /\ last.mov \in {"Left", "Right"}) =>
        text_location = C23_Target(last.mov, last.at, Len(lines))

\* C23 witness: Right at the end of a line that has a line after it moved to
\* the start of that line.
C23_Witness ==
    /\ last.op = "handle_movement" /\ last.mov = "Right"
    /\ last.at.grapheme_index = LineLen(last.at.line_index)
    /\ last.at.grapheme_index > 0
    /\ last.at.line_index + 1 < Len(lines)
    /\ text_location = [line_index |-> last.at.line_index + 1, grapheme_index |-> 0]

\* C29: View::handle_backspace at the origin (0, 0) changes nothing (text,
\* cursor, dirty flag); at (l, g) with g > 0 it removes the grapheme just
\* before the cursor and leaves the cursor at (l, g - 1); at (l, 0) with l > 0
\* an existing line it appends line l to line l - 1, reduces the line count by
\* one and leaves the cursor at the former end of line l - 1.
C29_Backspace ==
    last.op = "handle_backspace" =>
        LET l == last.at.line_index
            g == last.at.grapheme_index
        IN  IF l = 0 /\ g = 0
            THEN lines = last.before /\ text_location = last.at /\ dirty = last.dirty
            ELSE IF g > 0
            THEN /\ DeleteRemovesOrMerges(last.before,
                                          [line_index |-> l, grapheme_index |-> g - 1], lines)
                 /\ Len(lines) = Len(last.before)
                 /\ text_location = [line_index |-> l, grapheme_index |-> g - 1]
            ELSE l < Len(last.before) =>
                 /\ Len(lines) = Len(last.before) - 1
                 /\ lines[l].string = last.before[l].string \o last.before[l + 1].string
                 /\ \A k \in 1..Len(last.before) :
                        /\ k < l => lines[k] = last.before[k]
                        /\ k > l + 1 => lines[k - 1] = last.before[k]
                 /\ text_location = [line_index |-> l - 1,
                                     grapheme_index |-> GraphemeCount(last.before[l])]

\* C29 witness: Backspace at the start of a non-empty second line appended it
\* to the non-empty first line and left the cursor on the seam.
C29_Witness ==
    /\ last.op = "handle_backspace"
    /\ last.at = [line_index |-> 1, grapheme_index |-> 0]
    /\ Len(last.before) = 2
    /\ last.before[1].string # <<>> /\ last.before[2].string # <<>>
    /\ Len(lines) = 1
    /\ lines[1].string = last.before[1].string \o last.before[2].string
    /\ text_location = [line_index |-> 0, grapheme_index |-> GraphemeCount(last.before[1])]

\* ceil(n / 2): the least m with 2 * m >= n
HalfUp(n) == CHOOSE m \in 0..n : 2 * m >= n /\ \A k \in 0..n : 2 * k >= n => m <= k

\* C30: center_screen sets scroll_offset.y to max(row - ceil(rows / 2), 0) and
\* scroll_offset.x to max(column - ceil(columns / 2), 0) for the cursor's
\* position, so a coordinate of at least half the viewport size is drawn at
\* ceil(size / 2) from the viewport's origin, and the view needs a redraw.
C30_CenterScreen ==
    LET v == ViewState
        c == CenterScreen(v)
        p == TextLocationToPosition(v)
    IN  /\ c.scroll_offset.y = Max(p.y - HalfUp(v.size.height), 0)
        /\ c.scroll_offset.x = Max(p.x - HalfUp(v.size.width), 0)
        /\ 2 * p.y >= v.size.height => p.y - c.scroll_offset.y = HalfUp(v.size.height)
        /\ 2 * p.x >= v.size.width => p.x - c.scroll_offset.x = HalfUp(v.size.width)
        /\ c.needs_redraw
        /\ c.text_location = v.text_location /\ c.lines = v.lines /\ c.size = v.size

\* C30 witness: a search jumped to an occurrence right of the viewport's half
\* and left it centred horizontally, the offset above zero.
C30_Witness ==
    /\ last.op \in {"search", "search_next"}
    /\ size.width > 0
    /\ scroll_offset.x > 0
    /\ scroll_offset.x = TextLocationToPosition(ViewState).x - HalfUp(size.width)
    /\ scroll_offset.y = Max(text_location.line_index - HalfUp(size.height), 0)
    /\ needs_redraw

\* C37: when View::search_next or View::search_prev finds no occurrence of
\* the search term, text_location after the call equals text_location before
\* it, from every valid cursor location.
C37_FailedSearchRestoresCursor ==
    (last.op \in {"search_next", "search_prev"} /\ last.found = "None") =>
        text_location = last.at

\* C38: after a successful search jump (View::search, search_next or
\* search_prev) in a viewport of at least one column and one row, the cursor
\* lies inside the viewport: its column in [scroll_offset.x, scroll_offset.x +
\* columns) and its row in [scroll_offset.y, scroll_offset.y + rows).
C38_JumpKeepsCursorVisible ==
    (/\ last.op \in {"search", "search_next", "search_prev"}
     /\ last.found = "Some"
     /\ size.width >= 1 /\ size.height >= 1) =>
        CursorInViewport

\* the offset C24 gives an axis with the cursor at c, the offset before and
\* the viewport's size on the axis
C24_Offset(c, offset, sz) ==
    IF c < offset THEN c
    ELSE IF c >= offset + sz THEN c - sz + 1
    ELSE offset

\* C24: the scroll-follow adjustment is minimal on each axis: with the cursor
\* coordinate c below the offset the offset becomes c, with c >= offset + size
\* it becomes c - size + 1, otherwise it is unchanged; needs_redraw is set
\* whenever an offset changed and is not newly set otherwise.
C24_MinimalScroll ==
    last.op = "handle_movement" =>
        LET pos == TextLocationToPosition(ViewState)
        IN  /\ scroll_offset.x = C24_Offset(pos.x, last.scroll.x, size.width)
            /\ scroll_offset.y = C24_Offset(pos.y, last.scroll.y, size.height)
            /\ needs_redraw = (last.redraw \/ scroll_offset # last.scroll)

\* C24 witness: with nothing to redraw, a movement past the right edge of a
\* viewport of more than one column moved the offset by one column and asked
\* for a redraw.
C24_Witness ==
    /\ last.op = "handle_movement"
    /\ ~last.redraw /\ needs_redraw
    /\ size.width > 1
    /\ scroll_offset.x = last.scroll.x + 1
    /\ TextLocationToPosition(ViewState).x = last.scroll.x + size.width
    /\ scroll_offset.y = last.scroll.y

-----------------------------------------------------------------------------
(* Files (src/editor/view/buffer.rs, src/editor/view/file_info.rs) *)

LF == "\n"

\* the contents of a file that does not exist
Absent == << "<absent>" >>

\* the file names given on the command line or typed at the Save As prompt
FileNames == {"", "out.txt", "ro/out.RS"}

\* Path::extension
Extension(name) ==
    CASE name = "out.txt"   -> "txt"
      [] name = "ro/out.RS" -> "RS"
      [] OTHER              -> "<none>"

\* FileInfo::from (the extension compared ignoring ASCII case)
FileInfoFrom(file_name) ==
    [path |-> file_name,
     file_type |-> IF Extension(file_name) \in {"rs", "RS", "Rs", "rS"}
                   THEN "Rust" ELSE "PlainText"]

\* File::create: the empty path names no file, ro/ is a directory that cannot
\* be written to
FileCreate(path) ==
    CASE path = ""          -> "NotFound"
      [] path = "ro/out.RS" -> "PermissionDenied"
      [] OTHER              -> "Ok"

\* str::lines: the text split after every "\n"; the "\n" and a "\r" right
\* before it are not part of the line, a last line without "\n" is kept whole
RECURSIVE StrLines(_)
StrLines(s) ==
    IF s = <<>> THEN <<>>
    ELSE IF \E k \in 1..Len(s) : s[k] = LF
    THEN LET k    == CHOOSE i \in 1..Len(s) : s[i] = LF /\ \A j \in 1..(i - 1) : s[j] # LF
             line == SubSeq(s, 1, k - 1)
         IN  << IF line # <<>> /\ line[Len(line)] = CR
                THEN SubSeq(line, 1, Len(line) - 1) ELSE line >>
                \o StrLines(SubSeq(s, k + 1, Len(s)))
    ELSE <<s>>

\* Buffer::load on a file that was read
BufLoad(v, file_path, contents) ==
    [v EXCEPT !.lines = [k \in 1..Len(StrLines(contents)) |-> LineFrom(StrLines(contents)[k])],
              !.file_info = FileInfoFrom(file_path),
              !.dirty = FALSE]

\* the text written without the line ends
RECURSIVE SavedTextNoLineEnd(_)
SavedTextNoLineEnd(ls) ==
    IF ls = <<>> THEN <<>> ELSE Head(ls).string \o SavedTextNoLineEnd(Tail(ls))

\* the text Buffer::save writes for the lines ls: writeln! of each
RECURSIVE SavedText(_)
SavedText(ls) ==
    IF ls = <<>> THEN <<>> ELSE Head(ls).string \o <<LF>> \o SavedText(Tail(ls))

\* save answering Ok to a Buffer without a path
BufSaveNoPathOk(v, d, written) ==
    IF v.file_info.path = NoPath
    THEN [v |-> [v EXCEPT !.dirty = FALSE], disk |-> d, result |-> "Ok"]
    ELSE IF FileCreate(v.file_info.path) # "Ok"
    THEN [v |-> v, disk |-> d, result |-> FileCreate(v.file_info.path)]
    ELSE [v |-> [v EXCEPT !.dirty = FALSE],
          disk |-> [d EXCEPT ![v.file_info.path] = SavedText(v.lines)],
          result |-> "Ok"]

\* Buffer::save on the file system d; writeln! fails after `written` lines
\* when written is less than the number of lines.  The result is the View
\* with its Buffer, the file system and Ok or the kind of the error.
BufSave(v, d, written) ==
    IF v.file_info.path = NoPath
    THEN [v |-> v, disk |-> d, result |-> "NotFound"]
    ELSE IF FileCreate(v.file_info.path) # "Ok"
    THEN [v |-> v, disk |-> d, result |-> FileCreate(v.file_info.path)]
    ELSE IF written < Len(v.lines)
    THEN [v |-> v,
          disk |-> [d EXCEPT ![v.file_info.path] = SavedText(SubSeq(v.lines, 1, written))],
          result |-> "StorageFull"]
    ELSE [v |-> [v EXCEPT !.dirty = FALSE],
          disk |-> [d EXCEPT ![v.file_info.path] = SavedText(v.lines)],
          result |-> "Ok"]

\* Buffer::save_as
BufSaveAs(v, d, file_name, written) ==
    BufSave([v EXCEPT !.file_info = FileInfoFrom(file_name)], d, written)

-----------------------------------------------------------------------------
(* SpecEditor: the Editor (src/editor.rs).  One step is one pass of
   Editor::run: an event handled by evaluate_event, then refresh_screen.
   The text typed into the command bar is given when Enter is pressed. *)

TIMES_TO_QUIT == 3

DEFAULT_MESSAGE == "HELP: '/' = find | Ctrl-S = save | Ctrl-Q = quit"

\* format!("ERR: Could not open file: {path}")
CouldNotOpen(path) ==
    IF path = "out.txt" THEN "ERR: Could not open file: out.txt"
    ELSE "ERR: Could not open file: ro/out.RS"

\* the size of the terminal the Editor runs in
EditorTerminalSize == [width |-> 4, height |-> 5]

\* the characters typed into the document, and the search terms entered
EditorKeys    == {"a"}
EditorNeedles == { <<>>, <<"a">> }

\* the files found on disk at the start
FileContents ==
    { c \in SeqsUpTo({"a", CR, LF}, MaxFileLen) : Len(StrLines(c)) <= MaxLines }

\* CommandBar::set_command; prompt.len() is the length in bytes, one per
\* character of the two prompts
SetCommand(bar, command) ==
    LET prompt == IF command = "SaveAs" THEN "Save As: " ELSE "Search: "
    IN  [bar EXCEPT !.command = command,
                    !.prompt = prompt,
                    !.cursor_location = Len(prompt)]

\* CommandBar::get_line
GetLine(bar) == bar.line.string

\* CommandBar::clear
CommandBarClear(bar) == [bar EXCEPT !.prompt = "", !.line = LineClear(bar.line)]

\* Editor::enter_command_mode
EnterCommandMode(cmd) ==
    /\ mode' = "Command"
    /\ command_bar' = SetCommand(command_bar, cmd)

\* Editor::exit_command_mode
ExitCommandMode ==
    /\ command_bar' = CommandBarClear(command_bar)
    /\ mode' = "Normal"

\* Editor::run leaves the loop once should_quit is set
Running == panic = "none" /\ ~should_quit

EditorFrame == UNCHANGED <<should_quit, ln, al, hl>>

\* Editor::new started with the argument arg, on a disk where the file arg
\* has the given contents: the file loaded, the components resized to the
\* terminal
EditorNew(arg, contents) ==
    /\ disk = [f \in FileNames \ {""} |-> IF f = arg THEN contents ELSE Absent]
    /\ message_bar = IF arg # NoPath /\ contents = Absent
                     THEN CouldNotOpen(arg)
                     ELSE DEFAULT_MESSAGE
    /\ LET loaded == IF arg # NoPath /\ contents # Absent
                     THEN [BufLoad(ViewDefault, arg, contents) EXCEPT !.needs_redraw = TRUE]
                     ELSE ViewDefault
           v == Resize(loaded, ViewSize(EditorTerminalSize))
       IN  /\ lines = v.lines
           /\ dirty = v.dirty
           /\ file_info = v.file_info
           /\ text_location = v.text_location
           /\ scroll_offset = v.scroll_offset
           /\ size = v.size
           /\ needs_redraw = v.needs_redraw
           /\ search_term = v.search_term
           /\ panic = v.panic
    /\ mode = "Normal"
    /\ command_bar = CommandBarDefault
    /\ pressed_quit = TIMES_TO_QUIT
    /\ should_quit = FALSE
    /\ ln = LineDefault
    /\ al = AnnotatedLineDefault
    /\ hl = HighlighterDefault
    /\ last = NoOp

\* the editor started on any of the files, or without a file
InitEditor ==
    \E arg \in (FileNames \ {""}) \cup {NoPath}, contents \in FileContents \cup {Absent} :
        /\ arg = NoPath => contents = Absent
        /\ EditorNew(arg, contents)

\* process_normal_command, EditorCommand::Move
NormalMove ==
    /\ Running /\ mode = "Normal"
    /\ \E mov \in Directions : SetView(RefreshScreen(HandleMovement(ViewState, mov)))
    /\ last' = [op |-> "Move"]
    /\ UNCHANGED <<editorVars, disk>> /\ EditorFrame

\* View::handle_command
HandleCommand(v, cmd) ==
    CASE cmd.kind = "Move"   -> HandleMovement(v, cmd.mov)
      [] cmd.kind = "Resize" -> v
      [] OTHER               -> [v EXCEPT !.panic = "internal error: entered unreachable code"]

\* the sizes of the Resize events
ResizeSizes == { [width |-> 3, height |-> 4] }

\* process_normal_command, EditorCommand::Resize: forwarded to
\* View::handle_command, then given to the status bar
NormalResize ==
    /\ Running /\ mode = "Normal"
    /\ \E sz \in ResizeSizes :
          /\ SetView(RefreshScreen(HandleCommand(ViewState, [kind |-> "Resize", size |-> sz])))
          /\ last' = [op |-> "Resize", size |-> sz]
    /\ UNCHANGED <<editorVars, disk>> /\ EditorFrame

\* evaluate_event in Insert and Command mode, Event::Resize: TextCommand::try_from
\* gives Err and no command is processed
TextResize ==
    /\ Running /\ mode \in {"Insert", "Command"}
    /\ \E sz \in ResizeSizes :
          /\ SetView(RefreshScreen(ViewState))
          /\ last' = [op |-> "Resize", size |-> sz]
    /\ UNCHANGED <<editorVars, disk>> /\ EditorFrame

\* process_normal_command, EditorCommand::ExitSearch (Esc): forwarded to
\* View::handle_command
NormalExitSearch ==
    /\ Running /\ mode = "Normal"
    /\ SetView(HandleCommand(ViewState, [kind |-> "ExitSearch"]))
    /\ last' = [op |-> "ExitSearch"]
    /\ UNCHANGED <<editorVars, disk>> /\ EditorFrame

\* process_normal_command, EditorCommand::EnterInsert
NormalEnterInsert ==
    /\ Running /\ mode = "Normal"
    /\ mode' = "Insert"
    /\ SetView(RefreshScreen(ViewState))
    /\ last' = [op |-> "EnterInsert"]
    /\ UNCHANGED <<command_bar, message_bar, pressed_quit, disk>> /\ EditorFrame

\* process_normal_command, EditorCommand::Save
NormalSave ==
    /\ Running /\ mode = "Normal"
    /\ \E written \in 0..Len(lines) :
          LET saved == BufSave(ViewState, disk, written)
          IN  /\ SetView(RefreshScreen(saved.v))
              /\ disk' = saved.disk
              /\ last' = [op |-> "Save", result |-> saved.result]
              /\ CASE saved.result = "Ok" ->
                        /\ pressed_quit' = TIMES_TO_QUIT
                        /\ message_bar' = "File was saved successfully"
                        /\ UNCHANGED <<mode, command_bar>>
                   [] saved.result = "NotFound" ->
                        /\ EnterCommandMode("SaveAs")
                        /\ UNCHANGED <<message_bar, pressed_quit>>
                   [] OTHER ->
                        /\ message_bar' = "Error writing file"
                        /\ UNCHANGED <<mode, command_bar, pressed_quit>>
    /\ EditorFrame

\* process_normal_command, EditorCommand::Search
NormalSearch ==
    /\ Running /\ mode = "Normal"
    /\ EnterCommandMode("Search")
    /\ SetView(RefreshScreen(ViewState))
    /\ last' = [op |-> "Search"]
    /\ UNCHANGED <<message_bar, pressed_quit, disk>> /\ EditorFrame

\* process_normal_command, EditorCommand::NextOccurrence
NormalNextOccurrence ==
    /\ Running /\ mode = "Normal"
    /\ SetView(RefreshScreen(SearchNext(ViewState)))
    /\ last' = [op |-> "NextOccurrence"]
    /\ UNCHANGED <<editorVars, disk>> /\ EditorFrame

\* process_insertion, TextCommand::Write
InsertWrite ==
    /\ Running /\ mode = "Insert"
    /\ DocChars(lines) < MaxChars
    /\ text_location.line_index < Len(lines) \/ Len(lines) < MaxLines
    /\ \E sy \in EditorKeys : SetView(RefreshScreen(HandleInsertion(ViewState, sy)))
    /\ last' = [op |-> "Write"]
    /\ UNCHANGED <<editorVars, disk>> /\ EditorFrame

\* process_insertion, TextCommand::Enter
InsertEnter ==
    /\ Running /\ mode = "Insert"
    /\ Len(lines) < MaxLines
    /\ SetView(RefreshScreen(HandleEnter(ViewState)))
    /\ last' = [op |-> "Enter"]
    /\ UNCHANGED <<editorVars, disk>> /\ EditorFrame

\* process_insertion, TextCommand::Deletion
InsertDeletion ==
    /\ Running /\ mode = "Insert"
    /\ SetView(RefreshScreen(HandleDeletion(ViewState)))
    /\ last' = [op |-> "Deletion"]
    /\ UNCHANGED <<editorVars, disk>> /\ EditorFrame

\* process_insertion, TextCommand::Backspace
InsertBackspace ==
    /\ Running /\ mode = "Insert"
    /\ SetView(RefreshScreen(HandleBackspace(ViewState)))
    /\ last' = [op |-> "Backspace",
                origin |-> text_location = LocationDefault]
    /\ UNCHANGED <<editorVars, disk>> /\ EditorFrame

\* process_insertion, TextCommand::Exit
InsertExit ==
    /\ Running /\ mode = "Insert"
    /\ mode' = "Normal"
    /\ SetView(RefreshScreen(ViewState))
    /\ last' = [op |-> "Exit"]
    /\ UNCHANGED <<command_bar, message_bar, pressed_quit, disk>> /\ EditorFrame

\* process_command, TextCommand::Write, Deletion and Backspace: the text in
\* the command bar is edited
CommandEdit ==
    /\ Running /\ mode = "Command"
    /\ SetView(RefreshScreen(ViewState))
    /\ last' = [op |-> "CommandEdit"]
    /\ UNCHANGED <<editorVars, disk>> /\ EditorFrame

\* process_command, TextCommand::Exit
CommandExit ==
    /\ Running /\ mode = "Command"
    /\ ExitCommandMode
    /\ SetView(RefreshScreen(ViewState))
    /\ last' = [op |-> "CommandExit"]
    /\ UNCHANGED <<message_bar, pressed_quit, disk>> /\ EditorFrame

\* process_command, TextCommand::Enter with Cmd::SaveAs: execute_command, then
\* exit_command_mode
CommandEnterSaveAs ==
    /\ Running /\ mode = "Command" /\ command_bar.command = "SaveAs"
    /\ \E file_name \in FileNames, written \in 0..Len(lines) :
          LET saved == BufSaveAs(ViewState, disk, file_name, written)
          IN  /\ SetView(RefreshScreen(saved.v))
              /\ disk' = saved.disk
              /\ last' = [op |-> "SaveAs", result |-> saved.result]
    /\ message_bar' = "File was saved successfully"
    /\ ExitCommandMode
    /\ UNCHANGED pressed_quit /\ EditorFrame

\* process_command, TextCommand::Enter with Cmd::Search
CommandEnterSearch ==
    /\ Running /\ mode = "Command" /\ command_bar.command = "Search"
    /\ \E needle \in EditorNeedles :
          SetView(RefreshScreen(Search([ViewState EXCEPT !.search_term = needle])))
    /\ last' = [op |-> "SearchFor"]
    /\ ExitCommandMode
    /\ UNCHANGED <<message_bar, pressed_quit, disk>> /\ EditorFrame

NextEditor ==
    \/ NormalMove
    \/ NormalResize
    \/ TextResize
    \/ NormalExitSearch
    \/ NormalEnterInsert
    \/ NormalSave
    \/ NormalSearch
    \/ NormalNextOccurrence
    \/ InsertWrite
    \/ InsertEnter
    \/ InsertDeletion
    \/ InsertBackspace
    \/ InsertExit
    \/ CommandEdit
    \/ CommandExit
    \/ CommandEnterSaveAs
    \/ CommandEnterSearch

SpecEditor == InitEditor /\ [][NextEditor]_vars

-----------------------------------------------------------------------------
(* SpecPrompt: the Editor with its quit protocol and the typing in the
   command bar, on a document that is typed into but not moved in.  The file
   system has one file per typed name. *)

\* the longest text typed into the command bar, and the furthest its cursor
\* goes past the prompt
BarMaxLen    == 2
BarMaxCursor == 3

\* the characters typed into the command bar
BarKeys == {"a", "m"}

\* the file a typed name stands for: no name, a name that can be created, a
\* name in a directory that cannot be written to
TypedPath(name) ==
    IF name = <<>> THEN ""
    ELSE IF Head(name) = "a" THEN "out.txt"
    ELSE "ro/out.RS"

\* CommandBar::move_left
CommandBarMoveLeft(bar) ==
    IF bar.cursor_location > Len(bar.prompt)
    THEN [bar EXCEPT !.cursor_location = SatSub(bar.cursor_location, 1)]
    ELSE bar

\* CommandBar::move_right
CommandBarMoveRight(bar) == [bar EXCEPT !.cursor_location = bar.cursor_location + 1]

\* CommandBar::handle_deletion
CommandBarHandleDeletion(bar) == [bar EXCEPT !.line = LinePop(bar.line)]

\* CommandBar::handle_backspace
CommandBarHandleBackspace(bar) ==
    IF bar.cursor_location # 0
    THEN CommandBarHandleDeletion(CommandBarMoveLeft(bar))
    ELSE bar

\* CommandBar::handle_insertion; push_chr never lowers the grapheme count, so
\* new_len - old_len does not overflow
CommandBarHandleInsertion(bar, sy) ==
    LET old_len == GraphemeCount(bar.line)
        pushed  == [bar EXCEPT !.line = PushChr(bar.line, sy)]
        new_len == GraphemeCount(pushed.line)
    IN  IF new_len - old_len > 0 THEN CommandBarMoveRight(pushed) ELSE pushed

\* format!("WARNING! File has unsaved changes. Press Ctrl-Q {times} more times to quit.")
Warning(times) ==
    CASE times = 1 -> "WARNING! File has unsaved changes. Press Ctrl-Q 1 more times to quit."
      [] times = 2 -> "WARNING! File has unsaved changes. Press Ctrl-Q 2 more times to quit."
      [] OTHER     -> "WARNING! File has unsaved changes. Press Ctrl-Q 3 more times to quit."

\* mutant of WarnUnsavedFile: the editor quits at the first press
WarnUnsavedFileQuits ==
    /\ should_quit' = TRUE
    /\ UNCHANGED <<message_bar, pressed_quit>>

\* Editor::warn_unsaved_file
WarnUnsavedFile ==
    IF pressed_quit < 1
    THEN /\ should_quit' = TRUE
         /\ UNCHANGED <<message_bar, pressed_quit>>
    ELSE /\ message_bar' = Warning(pressed_quit)
         /\ pressed_quit' = SatSub(pressed_quit, 1)
         /\ UNCHANGED should_quit

\* Editor::new without a file, or on the file out.txt holding one line of a
\* letter with a combining mark
InitPrompt ==
    \E arg \in {NoPath, "out.txt"} :
        EditorNew(arg, IF arg = NoPath THEN Absent ELSE <<"a", "m", LF>>)

\* process_normal_command, EditorCommand::Quit
NormalQuit ==
    /\ Running /\ mode = "Normal"
    /\ IF dirty
       THEN WarnUnsavedFile
       ELSE /\ should_quit' = TRUE
            /\ UNCHANGED <<message_bar, pressed_quit>>
    /\ SetView(RefreshScreen(ViewState))
    /\ last' = [op |-> "Quit", dirty |-> dirty, pressed_quit |-> pressed_quit]
    /\ UNCHANGED <<mode, command_bar, disk, ln, al, hl>>

\* process_command, TextCommand::Write
CommandWrite ==
    /\ Running /\ mode = "Command"
    /\ Len(command_bar.line.string) < BarMaxLen
    /\ command_bar.cursor_location < Len(command_bar.prompt) + BarMaxCursor
    /\ \E sy \in BarKeys : command_bar' = CommandBarHandleInsertion(command_bar, sy)
    /\ SetView(RefreshScreen(ViewState))
    /\ last' = [op |-> "CommandWrite"]
    /\ UNCHANGED <<mode, message_bar, pressed_quit, disk>> /\ EditorFrame

\* process_command, TextCommand::Deletion
CommandDeletion ==
    /\ Running /\ mode = "Command"
    /\ command_bar' = CommandBarHandleDeletion(command_bar)
    /\ SetView(RefreshScreen(ViewState))
    /\ last' = [op |-> "CommandDeletion"]
    /\ UNCHANGED <<mode, message_bar, pressed_quit, disk>> /\ EditorFrame

\* process_command, TextCommand::Backspace
CommandBackspace ==
    /\ Running /\ mode = "Command"
    /\ command_bar' = CommandBarHandleBackspace(command_bar)
    /\ SetView(RefreshScreen(ViewState))
    /\ last' = [op |-> "CommandBackspace"]
    /\ UNCHANGED <<mode, message_bar, pressed_quit, disk>> /\ EditorFrame

\* process_command, TextCommand::Enter: execute_command on the text typed,
\* then exit_command_mode unless execute_command panicked
CommandEnter ==
    /\ Running /\ mode = "Command"
    /\ CASE command_bar.command = "Search" ->
              LET found == Search([ViewState EXCEPT !.search_term = GetLine(command_bar)])
              IN  /\ SetView(RefreshScreen(found))
                  /\ last' = [op |-> "CommandEnter", command |-> "Search"]
                  /\ IF found.panic = "none" THEN ExitCommandMode
                     ELSE UNCHANGED <<mode, command_bar>>
                  /\ UNCHANGED <<message_bar, disk>>
         [] command_bar.command = "SaveAs" ->
              /\ \E written \in 0..Len(lines) :
                    LET saved == BufSaveAs(ViewState, disk,
                                           TypedPath(GetLine(command_bar)), written)
                    IN  /\ SetView(RefreshScreen(saved.v))
                        /\ disk' = saved.disk
                        /\ last' = [op |-> "CommandEnter", command |-> "SaveAs",
                                    result |-> saved.result]
              /\ message_bar' = "File was saved successfully"
              /\ ExitCommandMode
         [] OTHER ->
              /\ SetView([ViewState EXCEPT !.panic = "Command wasn't set"])
              /\ last' = [op |-> "CommandEnter", command |-> "None"]
              /\ UNCHANGED <<mode, command_bar, message_bar, disk>>
    /\ UNCHANGED pressed_quit /\ EditorFrame

NextPrompt ==
    \/ NormalQuit
    \/ NormalSave
    \/ NormalSearch
    \/ NormalEnterInsert
    \/ InsertWrite
    \/ InsertExit
    \/ CommandWrite
    \/ CommandDeletion
    \/ CommandBackspace
    \/ CommandExit
    \/ CommandEnter

SpecPrompt == InitPrompt /\ [][NextPrompt]_vars

-----------------------------------------------------------------------------
(* Claims on the quit protocol and the command bar *)

\* C33: a Quit on a document without unsaved changes sets should_quit; on a
\* document with unsaved changes a Quit with the counter at 3, 2 or 1 only
\* shows the warning announcing that many further presses and lowers the
\* counter by one, and a Quit with the counter at 0 (the fourth in a row from
\* TIMES_TO_QUIT) sets should_quit; a successful Save in Normal mode puts the
\* counter back to TIMES_TO_QUIT.
C33_QuitProtocol ==
    /\ (last.op = "Quit" /\ ~last.dirty) => should_quit
    /\ (last.op = "Quit" /\ last.dirty /\ last.pressed_quit > 0) =>
           /\ ~should_quit
           /\ pressed_quit = last.pressed_quit - 1
           /\ last.pressed_quit = 3 =>
                 message_bar = "WARNING! File has unsaved changes. Press Ctrl-Q 3 more times to quit."
           /\ last.pressed_quit = 2 =>
                 message_bar = "WARNING! File has unsaved changes. Press Ctrl-Q 2 more times to quit."
           /\ last.pressed_quit = 1 =>
                 message_bar = "WARNING! File has unsaved changes. Press Ctrl-Q 1 more times to quit."
    /\ (last.op = "Quit" /\ last.dirty /\ last.pressed_quit = 0) => should_quit
    /\ (last.op = "Save" /\ last.result = "Ok") => pressed_quit = TIMES_TO_QUIT
    /\ pressed_quit \in 0..TIMES_TO_QUIT

\* C33 witness: the fourth Quit in a row on a modified document, after the
\* warning announcing one more press, set should_quit
C33_Witness ==
    /\ last.op = "Quit"
    /\ last.dirty
    /\ last.pressed_quit = 0
    /\ message_bar = "WARNING! File has unsaved changes. Press Ctrl-Q 1 more times to quit."
    /\ should_quit

-----------------------------------------------------------------------------
(* Claims on saving and loading *)

\* C3: Buffer.dirty is false right after load; every call of insert_char,
\* delete or insert_newline (made by Write, Deletion, Enter, and by Backspace
\* away from the origin) sets it, also when no text changes; and it goes from
\* true to false only when save returns Ok.
C3_DirtyFlag ==
    /\ ~dirty
    /\ [][ /\ last'.op \in {"Write", "Enter", "Deletion"} => dirty'
           /\ (last'.op = "Backspace" /\ ~last'.origin) => dirty'
           /\ (dirty /\ ~dirty') =>
                  (last'.op \in {"Save", "SaveAs"} /\ last'.result = "Ok") ]_vars

\* Delete on the document without lines removed nothing and set dirty
C3_Witness ==
    /\ last.op = "Deletion"
    /\ lines = <<>>
    /\ dirty

\* C4: Save on a document without file identity: Buffer::save returns
\* NotFound, writes nothing, leaves dirty and the lines as they are, and the
\* editor enters Command mode with the Save As prompt and reports no error.
C4_SaveWithoutIdentity ==
    [][ (last'.op = "Save" /\ file_info.path = NoPath) =>
            /\ last'.result = "NotFound"
            /\ disk' = disk
            /\ dirty' = dirty
            /\ lines' = lines
            /\ file_info' = file_info
            /\ mode' = "Command"
            /\ command_bar' = SetCommand(command_bar, "SaveAs")
            /\ message_bar' = message_bar ]_vars

\* Save was pressed on a modified document that has no file identity
C4_Witness ==
    /\ last.op = "Save"
    /\ last.result = "NotFound"
    /\ file_info.path = NoPath
    /\ dirty
    /\ lines # <<>>
    /\ mode = "Command"
    /\ command_bar.prompt = "Save As: "

\* C5: a save or save-as attempt that fails leaves the lines, the dirty flag
\* and the file identity (path and file type) as they were.
C5_FailedSaveLeavesDocument ==
    [][ (last'.op \in {"Save", "SaveAs"} /\ last'.result # "Ok") =>
            /\ lines' = lines
            /\ dirty' = dirty
            /\ file_info' = file_info ]_vars

\* C31: when a save-as attempt fails with an I/O error the editor does not
\* display "File was saved successfully": after Enter at the Save As prompt
\* that message is shown only when the write succeeded.
C31_SaveAsFailureSurfaced ==
    (last.op = "SaveAs" /\ message_bar = "File was saved successfully") =>
        last.result = "Ok"

\* no line of the document contains a line terminator ("\n" or "\r")
NoLineTerminator(ls) ==
    \A k \in 1..Len(ls) : \A i \in 1..Len(ls[k].string) : ls[k].string[i] \notin {LF, CR}

\* the texts of the lines
Texts(ls) == [k \in 1..Len(ls) |-> ls[k].string]

\* C7: after a successful save of a document whose lines contain no line
\* terminator, loading the saved path gives the same line texts in the same
\* order, and the Buffer is not dirty.
C7_SaveLoadRoundTrip ==
    (last.op \in {"Save", "SaveAs"} /\ last.result = "Ok" /\ NoLineTerminator(lines)) =>
        /\ disk[file_info.path] # Absent
        /\ Texts(BufLoad(ViewDefault, file_info.path, disk[file_info.path]).lines)
               = Texts(lines)
        /\ ~dirty

\* a document of an empty line and a non-empty line was saved
C7_Witness ==
    /\ last.op \in {"Save", "SaveAs"}
    /\ last.result = "Ok"
    /\ NoLineTerminator(lines)
    /\ Len(lines) = 2
    /\ lines[1].string = <<>>
    /\ lines[2].string # <<>>

\* C34: whenever the document goes from clean to dirty the quit counter
\* pressed_quit equals TIMES_TO_QUIT, so that the editor never quits with
\* unsaved changes before TIMES_TO_QUIT warnings were shown for them.
C34_CounterFullWhenDirtied ==
    [][ (~dirty /\ dirty') => pressed_quit' = TIMES_TO_QUIT ]_vars

\* C35: whenever the editor is in Command mode the command bar's command is
\* set, so that execute_command's expect does not panic on Enter; and every
\* Exit or Enter in Command mode leaves the editor in Normal mode with the
\* command bar's prompt and typed text empty.
C35_CommandModeWellFormed ==
    /\ mode = "Command" => command_bar.command \in {"Search", "SaveAs"}
    /\ panic # "Command wasn't set"
    /\ last.op \in {"CommandExit", "CommandEnter"} =>
           /\ panic = "none"
           /\ mode = "Normal"
           /\ command_bar.prompt = ""
           /\ command_bar.line.string = <<>>
           /\ command_bar.line.line = <<>>

\* C36: in Command mode, after any sequence of Write, Backspace and Deletion
\* commands, the command bar's cursor_location is the length of the prompt
\* plus the number of graphemes of the typed line.
C36_CursorAfterTypedText ==
    (mode = "Command" /\ panic = "none") =>
        command_bar.cursor_location =
            Len(command_bar.prompt) + GraphemeCount(command_bar.line)

=============================================================================
